---- MODULE Spec2Model ----
(***************************************************************************)
(* Durable Execution SDK: WorkflowContext.execute_action and the engine it *)
(* talks to through InternalEndureClient.send_log.                         *)
(*                                                                         *)
(* A process p invokes a workflow that calls ctx.execute_action for one    *)
(* (execution_id, action_name), again and again.  A call to send_log is    *)
(* one atomic exchange with the engine; the action callable runs between   *)
(* two such exchanges, and the process may crash between any two steps.    *)
(* The route handler of a Workflow serves one request after another: it    *)
(* checks the body, marks the execution as running, runs the user function *)
(* and turns what it raises into an EndureException.                       *)
(***************************************************************************)
EXTENDS Integers, Sequences, FiniteSets, TLC

\* ------------------------------------------------------------------ bounds

\* Invocations of the action callable the engine lets one call reach before
\* it stops scheduling retries.
MaxInvocations == 2
\* The clock runs from 1 to MaxTime.
MaxTime == 2
\* Successful completions of the action callable that are counted.
MaxSuccesses == 2
\* The largest max_retries a workflow passes to execute_action.
MaxRetries == 1

\* The processes that invoke the workflow.  A process that crashed or whose
\* call ended invokes it again, for the same (execution_id, action_name).
Procs == {"p1"}
\* The objects that come to hold a registry reference, and the registry
\* objects that come to exist.
MaxHeld == 2
MaxInstances == 2
\* The length a caller of get_services lets a list it was handed grow to.
MaxAppended == 2

\* ------------------------------------------------------------------ values

\* A Python value: t is its type, v its text (for int and str), items its
\* members (the values of a dict, the elements of a list or tuple, the field
\* values of a pydantic model or dataclass).
Val(t, v, items) == [t |-> t, v |-> v, items |-> items]
None == Val("NoneType", "", <<>>)
IntV(n) == Val("int", n, <<>>)
StrV(s) == Val("str", s, <<>>)
DictV(items) == Val("dict", "", items)
ModelV(items) == Val("BaseModel", "", items)
\* A key that a payload does not hold.
Absent == Val("absent", "", <<>>)

RECURSIVE asdict(_), model_dump(_), serialize_data(_)

\* dataclasses.asdict: dataclasses become dicts, all the way down through
\* dicts, lists and tuples; anything else is copied.
asdict(data) ==
    CASE data.t = "dataclass" -> DictV([i \in DOMAIN data.items |-> asdict(data.items[i])])
      [] data.t \in {"dict", "list", "tuple"} ->
            Val(data.t, "", [i \in DOMAIN data.items |-> asdict(data.items[i])])
      [] OTHER -> data

\* BaseModel.model_dump: models and dataclasses become dicts, all the way down.
model_dump(data) ==
    CASE data.t \in {"BaseModel", "dataclass"} ->
            DictV([i \in DOMAIN data.items |-> model_dump(data.items[i])])
      [] data.t \in {"dict", "list", "tuple"} ->
            Val(data.t, "", [i \in DOMAIN data.items |-> model_dump(data.items[i])])
      [] OTHER -> data

\* serialize_data: a pydantic model is dumped, a dataclass goes through asdict,
\* dicts, lists and tuples are converted member by member (a tuple stays a
\* tuple); anything else is returned as it is.
serialize_data(data) ==
    CASE data.t = "BaseModel" -> model_dump(data)
      [] data.t = "dataclass" -> asdict(data)
      [] data.t \in {"dict", "list", "tuple"} ->
            Val(data.t, "", [i \in DOMAIN data.items |-> serialize_data(data.items[i])])
      [] OTHER -> data

\* Python truthiness, as `if x:` evaluates it.
Truthy(x) ==
    CASE x.t \in {"NoneType", "absent"} -> FALSE
      [] x.t = "int" -> x.v # "0"
      [] x.t = "str" -> x.v # ""
      [] x.t \in {"dict", "list", "tuple"} -> Len(x.items) > 0
      [] OTHER -> TRUE

\* dict.get(key): None when the key is not there.
Get(x) == IF x = Absent THEN None ELSE x

\* The inputs a workflow passes to execute_action and the values the action
\* callable returns.
InputData == {DictV(<<ModelV(<<IntV("7")>>)>>)}
ActionResults == {IntV("0"), ModelV(<<IntV("7")>>)}

\* The arguments of a workflow's call ctx.execute_action(action, input_data,
\* max_retries, retry_mechanism, action_name) on a context made for an
\* execution_id: a call site is <<execution_id, max_retries, retry_mechanism,
\* action_name>>.  NoName is the default action_name=None.
NoName == "None"
RetryMechanisms == {"exponential", "linear", "constant"}
CallSites == {"e1", "e2"} \X (0..MaxRetries) \X RetryMechanisms \X {NoName, "custom"}
DefaultCallSite == {<<"e1", MaxRetries, "exponential", NoName>>}
\* action.__name__
ActionCallableName == "sample_action"

\* ------------------------------------------------------------------ exceptions

Exc(type, origin, code, error) ==
    [type |-> type, origin |-> origin, code |-> code, error |-> error]
NoExc == Exc("none", "none", 0, "")

\* What the action callable may raise.  CancelledError is a BaseException.
ActionExcTypes ==
    {"ValueError", "ValidationError", "RequestException", "Exception", "CancelledError"}
\* What send_log may raise: the base URL or an argument is missing
\* (ValueError), the engine is unreachable (RequestException), or anything
\* unexpected (Exception).
SendLogExcTypes == {"ValueError", "RequestException", "Exception"}

\* pydantic's ValidationError is a ValueError.
IsValueError(e) == e.type \in {"ValueError", "ValidationError"}
IsRequestException(e) == e.type = "RequestException"
IsException(e) == e.type # "CancelledError"

\* str(e)
StrOf(e) == e.type

\* ------------------------------------------------------------------ engine

HTTP_200_OK == 200
HTTP_201_CREATED == 201
HTTP_208_ALREADY_REPORTED == 208
HTTP_400_BAD_REQUEST == 400
HTTP_404_NOT_FOUND == 404
HTTP_409_CONFLICT == 409
HTTP_422_UNPROCESSABLE_ENTITY == 422
HTTP_500_INTERNAL_SERVER_ERROR == 500

StatusCodes ==
    {HTTP_200_OK, HTTP_201_CREATED, HTTP_208_ALREADY_REPORTED, HTTP_400_BAD_REQUEST,
     HTTP_404_NOT_FOUND, HTTP_409_CONFLICT, HTTP_500_INTERNAL_SERVER_ERROR}

\* payload.get("retry_at") of a payload without the key.
NoRetryAt == -1

\* Response.to_dict(): the envelope send_log returns.
Response(status, output, retry_at) ==
    [status_code |-> status, payload |-> [output |-> output, retry_at |-> retry_at]]
NoResponse == Response(0, Absent, NoRetryAt)

\* The outputs an engine may put in a payload: none, a falsy one, others.
PayloadOutputs == {Absent, IntV("0"), DictV(<<IntV("7")>>)}
\* The retry times an engine may put in a payload: none, zero, times on the clock.
PayloadRetryAts == {NoRetryAt} \cup (0..MaxTime)

\* Log fields left at their default None.
NoMaxRetries == -1
NoRetryMechanism == "None"
LogOf(status, input, output) ==
    [status |-> status, input |-> input, output |-> output,
     max_retries |-> NoMaxRetries, retry_mechanism |-> NoRetryMechanism]

\* ------------------------------------------------------------------ state

VARIABLES
    input_type,      \* Workflow.input_type: "Any" or the model class of the hint
    request_pc,      \* where the handler is in serving a request
    body,            \* the request's body
    marked,          \* the execution ids mark_execution_as_running was called with
    mark_response,   \* the status code mark_execution_as_running returned, or 0
    func_calls,      \* the calls of the user function: <<ctx.execution_id, input>>
    response,        \* what the handler returned or raised
    func_raised,     \* the exception the user function raised, or none
    execution_id,    \* WorkflowContext.execution_id
    max_retries,     \* execute_action's argument
    retry_mechanism, \* execute_action's argument
    action_name,     \* execute_action's argument, NoName by default
    engineKind,      \* "any": the engine answers anything; "recording": it
                     \* keeps COMPLETED logs and answers later STARTED logs 208
    completed,       \* engine: the output of the COMPLETED log it holds, or Absent
    now,             \* time.time()
    successes,       \* times the action callable returned without raising
    pc,              \* where each process is in execute_action
    input_data,      \* execute_action's argument
    status_code,     \* the status code of the answer to the STARTED log
    engine_response, \* the last envelope send_log returned
    result,          \* what the action callable returned
    exc,             \* the exception being handled
    logs,            \* the logs this call handed to send_log, in order
    attempts,        \* how each invocation of the action callable in this
                     \* call ended: "returned" or the type it raised
    wake,            \* the retry_at the call sleeps until
    outcome,         \* what execute_action returned or raised
    previous,        \* what the call before this one returned, when it ran the
                     \* action once and logged COMPLETED; Absent otherwise
    _instance,       \* ServiceRegistry._instance: 0 for None, or the place of
                     \* the instance in registries
    registries,      \* every ServiceRegistry object made so far: its _services
                     \* (insertion-ordered) and the routes of its _router
    held,            \* the objects that keep a reference to a registry:
                     \* Service.registry, DurableApp.serviceRegistry, or a plain
                     \* variable assigned ServiceRegistry()
    services_copy,   \* the dict a caller got from get_services, or NoCopy
    last,            \* the last call on the registry surface and how it ended
    threads,         \* the threads that call ServiceRegistry() and then
                     \* register_workflow: the line each is at, its arguments,
                     \* the instance it got and how its call ended
    unset,           \* the registry objects __new__ has made but not yet given
                     \* a _services attribute
    exchange,        \* a call of InternalEndureClient: whether the base URL and
                     \* the arguments are there, and what requests.patch does
    client_result,   \* what that call returned or raised
    cancelled        \* the requests the host has cancelled: the process, and
                     \* the logs its call had handed to send_log by then

handlerVars == <<input_type, request_pc, body, marked, mark_response, func_calls,
                 response, func_raised>>
argVars == <<execution_id, max_retries, retry_mechanism, action_name>>
engineVars == <<engineKind, completed>>
callVars == <<pc, input_data, status_code, engine_response, result, exc, logs,
              attempts, wake, outcome>>
vars == <<input_type, request_pc, body, marked, mark_response, func_calls, response,
          func_raised,
          execution_id, max_retries, retry_mechanism, action_name,
          engineKind, completed, now, successes, pc, input_data, status_code,
          engine_response, result, exc, logs, attempts, wake, outcome, previous,
          _instance, registries, held, services_copy, last, threads, unset,
          exchange, client_result, cancelled>>

clientVars == <<exchange, client_result>>
registryVars == <<_instance, registries, held, services_copy, last, threads, unset,
                  clientVars, cancelled>>

\* Invocations of the action callable in the call of process p.
invoked(p) == Len(attempts[p])

NoOutcome == [kind |-> "none", value |-> None, exc |-> NoExc]
\* A return that drops the value.
Returned_Nothing(value) == [kind |-> "returned", value |-> None, exc |-> NoExc]
Returned(value) == [kind |-> "returned", value |-> value, exc |-> NoExc]
Raised(e) == [kind |-> "raised", value |-> None, exc |-> e]

\* The processes `procs` are outside execute_action: WorkflowContext.__init__
\* keeps nothing but the execution_id.
InitContexts(kind, procs) ==
    /\ engineKind = kind
    /\ completed = Absent
    /\ now = 1
    /\ successes = 0
    /\ pc = [p \in procs |-> "idle"]
    /\ input_data = [p \in procs |-> None]
    /\ status_code = [p \in procs |-> 0]
    /\ engine_response = [p \in procs |-> NoResponse]
    /\ result = [p \in procs |-> None]
    /\ exc = [p \in procs |-> NoExc]
    /\ logs = [p \in procs |-> <<>>]
    /\ attempts = [p \in procs |-> <<>>]
    /\ wake = [p \in procs |-> 0]
    /\ outcome = [p \in procs |-> NoOutcome]
    /\ previous = [p \in procs |-> Absent]

InitCall(kind) == InitContexts(kind, Procs)

\* The workflow's call site is one of `sites`.
InitArgs(sites) ==
    \E site \in sites :
        /\ execution_id = site[1]
        /\ max_retries = site[2]
        /\ retry_mechanism = site[3]
        /\ action_name = site[4]

\* No request is being served; the workflow's input hint is one of `types`.
NoBody == [kind |-> "none", has_id |-> FALSE, has_input |-> FALSE,
           execution_id |-> "", input |-> None]
NoDetails == ""
HandlerError(type, status, error, details) ==
    [type |-> type, status_code |-> status, error |-> error, details |-> details]
NoResult == [kind |-> "none", output |-> None, exc |-> HandlerError("none", 0, "", NoDetails)]
InitHandler(types) ==
    /\ input_type \in types
    /\ request_pc = "idle"
    /\ body = NoBody
    /\ marked = <<>>
    /\ mark_response = 0
    /\ func_calls = <<>>
    /\ response = NoResult
    /\ func_raised = NoResult.exc

\* The module is imported: no registry has been made, nothing refers to one.
NoCopy == [taken |-> FALSE, registry |-> 0, entries |-> <<>>]
NoFunc == [t |-> "NoneType", name |-> "", co_varnames |-> <<>>, co_argcount |-> 0,
           ctx |-> "", input |-> "", output |-> ""]
NoConfig == [given |-> FALSE, retention |-> [t |-> "NoneType", n |-> 0]]
NoWorkflow == [t |-> "NoneType", name |-> "", input |-> "", output |-> "",
               retention_period |-> [t |-> "NoneType", n |-> 0]]
Threads == {"t1", "t2"}
NoThread == [line |-> 0, self |-> 0, service_name |-> None, workflow |-> NoWorkflow,
             raised |-> "none"]
NoCall == [op |-> "none", registry |-> 0, service_name |-> None, workflow |-> NoWorkflow,
           func |-> NoFunc, config |-> NoConfig, raised |-> "none", returned |-> <<>>]
InitRegistry ==
    /\ _instance = 0
    /\ registries = <<>>
    /\ held = {}
    /\ services_copy = NoCopy
    /\ last = NoCall
    /\ threads = [t \in Threads |-> NoThread]
    /\ unset = {}

\* What requests.patch does: it raises a transport error, or returns a
\* response with a status code and a body that is JSON or not.
HttpFailure(raised) ==
    [kind |-> "failure", exc |-> raised, status_code |-> 0, is_json |-> FALSE, body |-> None]
HttpResponse(status, is_json, text) ==
    [kind |-> "response", exc |-> "none", status_code |-> status, is_json |-> is_json,
     body |-> text]
NoExchange == [base_url |-> FALSE, log |-> FALSE, action_name |-> FALSE,
               http |-> HttpFailure("none")]
NoClientResult == [op |-> "none", kind |-> "none", status_code |-> 0, payload |-> None,
                   exc |-> "none", requests |-> 0]
\* No call of the client is under way; the next one is one of `exchanges`.
InitExchange(exchanges) ==
    /\ exchange \in exchanges
    /\ client_result = NoClientResult

InitIdle == InitRegistry /\ InitExchange({NoExchange}) /\ cancelled = {}

Init == InitCall("any") /\ InitArgs(DefaultCallSite) /\ InitHandler({"Any"}) /\ InitIdle
InitRecording ==
    InitCall("recording") /\ InitArgs(DefaultCallSite) /\ InitHandler({"Any"}) /\ InitIdle
\* Every call site, against an engine that acknowledges and schedules retries.
InitCallSites ==
    InitCall("scheduling") /\ InitArgs(CallSites) /\ InitHandler({"Any"}) /\ InitIdle

\* ------------------------------------------------------------------ send_log

\* What the engine answers to a log of process p.  An engine of kind
\* "recording" answers a STARTED log 208 with the recorded output exactly when
\* it holds a COMPLETED log; otherwise the answer is any status code with any
\* payload.  Only the STARTED answer's output and the FAILED answer's retry_at
\* are read by the SDK.  A retry is scheduled (a retry_at on the clock) only
\* while the call is below MaxInvocations.  An engine of kind "scheduling"
\* acknowledges every log: STARTED with 200 or 201, COMPLETED with 200, and
\* FAILED with 200 and a retry_at, or with 400 once it schedules no more; it
\* does not look at the max_retries the STARTED log declared.  An engine of
\* kind "protocol" gives each answer the SDK tells apart, once: to STARTED 200,
\* 208 with an output, or 500; to FAILED 200 with a retry_at, 200 without
\* one, 400, or 409; to COMPLETED any status code.
EngineAnswers(p, status) ==
    CASE engineKind = "protocol" /\ status = "started" ->
            {Response(HTTP_200_OK, Absent, NoRetryAt),
             Response(HTTP_208_ALREADY_REPORTED, DictV(<<IntV("7")>>), NoRetryAt),
             Response(HTTP_500_INTERNAL_SERVER_ERROR, Absent, NoRetryAt)}
      [] engineKind = "protocol" /\ status = "failed" ->
            {Response(HTTP_200_OK, Absent, r) :
                r \in IF invoked(p) < MaxInvocations THEN {NoRetryAt} \cup (1..MaxTime)
                      ELSE {NoRetryAt}}
            \cup {Response(s, Absent, NoRetryAt) :
                     s \in {HTTP_400_BAD_REQUEST, HTTP_409_CONFLICT}}
      [] engineKind = "protocol" /\ status = "completed" ->
            {Response(s, Absent, NoRetryAt) : s \in StatusCodes}
      [] engineKind = "scheduling" /\ status = "started" ->
            {Response(s, Absent, NoRetryAt) : s \in {HTTP_200_OK, HTTP_201_CREATED}}
      [] engineKind = "scheduling" /\ status = "failed" ->
            IF invoked(p) < MaxInvocations
            THEN {Response(HTTP_200_OK, Absent, r) : r \in 1..MaxTime}
            ELSE {Response(HTTP_400_BAD_REQUEST, Absent, NoRetryAt)}
      [] engineKind = "scheduling" /\ status = "completed" ->
            {Response(HTTP_200_OK, Absent, NoRetryAt)}
      [] status = "started" ->
            IF engineKind = "recording"
            THEN IF completed # Absent
                 THEN {Response(HTTP_208_ALREADY_REPORTED, completed, NoRetryAt)}
                 ELSE {Response(s, Absent, NoRetryAt) :
                          s \in StatusCodes \ {HTTP_208_ALREADY_REPORTED}}
            ELSE {Response(s, o, NoRetryAt) : s \in StatusCodes, o \in PayloadOutputs}
      [] status = "failed" ->
            {Response(s, Absent, r) :
                s \in StatusCodes,
                r \in IF invoked(p) < MaxInvocations THEN PayloadRetryAts ELSE {NoRetryAt, 0}}
      [] OTHER -> {Response(s, Absent, NoRetryAt) : s \in StatusCodes}

\* InternalEndureClient.send_log: it returns the envelope of any HTTP answer,
\* or raises.  A transport error may strike before or after the engine got the
\* log; the other errors strike before the request is made.  With a
\* "scheduling" engine the base URL is set and the engine is reachable:
\* send_log returns.
SendLogOutcomes(p, status) ==
    {[kind |-> "response", resp |-> r, exc |-> NoExc, delivered |-> TRUE] :
        r \in EngineAnswers(p, status)}
    \cup
    (IF engineKind = "scheduling"
     THEN {}
     ELSE {[kind |-> "raise", resp |-> NoResponse, exc |-> Exc(t, "send_log", 0, ""),
            delivered |-> FALSE] : t \in SendLogExcTypes}
          \cup
          {[kind |-> "raise", resp |-> NoResponse,
            exc |-> Exc("RequestException", "send_log", 0, ""), delivered |-> TRUE]})

\* A recording engine keeps the output of a COMPLETED log that reaches it.
EngineReceives(log, delivered) ==
    IF engineKind = "recording" /\ delivered /\ log.status = "completed"
    THEN log.output
    ELSE completed

\* Two contexts in one process: that of p1, made for the call site's
\* execution_id, and that of p2, made for another execution.
Contexts == {"p1", "p2"}
OtherExecutionId == "e9"
\* Contexts that send their logs under one and the same execution id.
ExecutionIdOf_Shared(p) == execution_id
\* self.execution_id of the context p calls execute_action on
ExecutionIdOf(p) == IF p = "p2" THEN OtherExecutionId ELSE execution_id

\* Logs always sent under the callable's name.
name_CallableOnly == ActionCallableName

\* name = action_name if action_name is not None else action.__name__
name == IF action_name # NoName THEN action_name ELSE ActionCallableName

\* The entry of `logs` for one call of send_log: the log, whether it reached
\* the engine, whether send_log returned an answer, and the invocation of the
\* action it followed (0 for the STARTED log).
Sent(p, log, o) ==
    [execution_id |-> ExecutionIdOf(p), action_name |-> name,
     status |-> log.status, input |-> log.input, output |-> log.output,
     max_retries |-> log.max_retries, retry_mechanism |-> log.retry_mechanism,
     delivered |-> o.delivered, answered |-> o.kind = "response",
     attempt |-> invoked(p)]

\* ------------------------------------------------------------------ execute_action

\* A match without the 208 case and with the run as its default case.
StartedDispatch_RunByDefault(status) ==
    IF status = HTTP_208_ALREADY_REPORTED THEN "cached" ELSE "invoke"

\* A match whose first case also takes 500.
StartedDispatch_RunOnServerError(status) ==
    CASE status \in {HTTP_201_CREATED, HTTP_200_OK, HTTP_500_INTERNAL_SERVER_ERROR} -> "invoke"
      [] status = HTTP_208_ALREADY_REPORTED -> "cached"
      [] OTHER -> "unexpected"

\* match status_code: run the action, return the cached result, or fail.
StartedDispatch(status) ==
    CASE status \in {HTTP_201_CREATED, HTTP_200_OK} -> "invoke"
      [] status = HTTP_208_ALREADY_REPORTED -> "cached"
      [] OTHER -> "unexpected"

\* output = engine_response.get("payload", {}).get("output"); return output if output else {}
CachedResult(resp) ==
    IF Truthy(Get(resp.payload.output)) THEN Get(resp.payload.output) ELSE DictV(<<>>)

\* execute_action up to the first invocation of the action: the STARTED log
\* and the match on its status code.
ExecuteAction(p) ==
    /\ pc[p] = "idle"
    /\ \E input \in InputData :
       \E o \in SendLogOutcomes(p, "started") :
         LET log == [LogOf("started", serialize_data(input), None) EXCEPT
                        !.max_retries = max_retries,
                        !.retry_mechanism = retry_mechanism] IN
         /\ input_data' = [input_data EXCEPT ![p] = input]
         /\ logs' = [logs EXCEPT ![p] = <<Sent(p, log, o)>>]
         /\ completed' = EngineReceives(log, o.delivered)
         /\ IF o.kind = "raise"
            THEN /\ pc' = [pc EXCEPT ![p] = "raised"]
                 /\ outcome' = [outcome EXCEPT ![p] = Raised(o.exc)]
                 /\ UNCHANGED <<status_code, engine_response>>
            ELSE /\ engine_response' = [engine_response EXCEPT ![p] = o.resp]
                 /\ status_code' = [status_code EXCEPT ![p] = o.resp.status_code]
                 /\ LET d == StartedDispatch(o.resp.status_code) IN
                    CASE d = "invoke" ->
                            /\ pc' = [pc EXCEPT ![p] = "invoke"]
                            /\ UNCHANGED outcome
                      [] d = "cached" ->
                            /\ pc' = [pc EXCEPT ![p] = "returned"]
                            /\ outcome' = [outcome EXCEPT ![p] = Returned(CachedResult(o.resp))]
                      [] OTHER ->
                            /\ pc' = [pc EXCEPT ![p] = "raised"]
                            /\ outcome' = [outcome EXCEPT ![p] =
                                  Raised(Exc("RuntimeError", "sdk", 0,
                                             "Unexpected status code from engine"))]
    /\ UNCHANGED <<registryVars, handlerVars, argVars, engineKind, now, successes, result, exc, attempts, wake, previous>>

\* The action's try without its inner except clause: a ValueError is retried
\* like any other exception.
ActionHandler_NoInnerExcept(e) ==
    CASE IsRequestException(e) -> "reraise"
      [] IsException(e) -> "log_and_retry"
      [] OTHER -> "propagate"

\* An outer try that re-raises every Exception without a FAILED log.
ActionHandler_ReraiseAll(e) ==
    CASE IsValueError(e) -> "log_and_reraise"
      [] IsException(e) -> "reraise"
      [] OTHER -> "propagate"

\* An outer try whose re-raising clause leaves the action's transport errors
\* to `except Exception`.
ActionHandler_TransportRetried(e) ==
    CASE IsValueError(e) -> "log_and_reraise"
      [] IsException(e) -> "log_and_retry"
      [] OTHER -> "propagate"

\* Which except clause takes an exception the action callable raised: the
\* inner `except (ValueError, ValidationError)` first, then the outer clauses.
ActionHandler(e) ==
    CASE IsValueError(e) -> "log_and_reraise"
      [] IsRequestException(e) -> "reraise"
      [] IsException(e) -> "log_and_retry"
      [] OTHER -> "propagate"

\* An outer try whose re-raising clause leaves out RequestException.
OuterHandler_NoTransportClause(e) ==
    CASE IsValueError(e) -> "reraise"
      [] IsException(e) -> "log_and_retry"
      [] OTHER -> "propagate"

\* Which clause of the outer try takes an exception raised after the inner
\* try: while the COMPLETED log is sent, or inside the inner except clause.
OuterHandler(e) ==
    CASE IsValueError(e) \/ IsRequestException(e) -> "reraise"
      [] IsException(e) -> "log_and_retry"
      [] OTHER -> "propagate"

\* One invocation of the action callable: result = action(input_data).
InvokeAction(p) ==
    /\ pc[p] = "invoke"
    /\ invoked(p) < MaxInvocations
    /\ \/ \E r \in ActionResults :
            /\ successes < MaxSuccesses
            /\ successes' = successes + 1
            /\ attempts' = [attempts EXCEPT ![p] = Append(@, "returned")]
            /\ result' = [result EXCEPT ![p] = r]
            /\ pc' = [pc EXCEPT ![p] = "log_completed"]
            /\ UNCHANGED <<exc, outcome>>
       \/ \E t \in ActionExcTypes :
            LET e == Exc(t, "action", 0, "")
                h == ActionHandler(e) IN
            /\ attempts' = [attempts EXCEPT ![p] = Append(@, t)]
            /\ CASE h = "log_and_reraise" ->
                       /\ pc' = [pc EXCEPT ![p] = "except_validation"]
                       /\ exc' = [exc EXCEPT ![p] = e]
                       /\ UNCHANGED outcome
                 [] h = "log_and_retry" ->
                       /\ pc' = [pc EXCEPT ![p] = "except_exception"]
                       /\ exc' = [exc EXCEPT ![p] = e]
                       /\ UNCHANGED outcome
                 [] OTHER ->
                       /\ pc' = [pc EXCEPT ![p] = "raised"]
                       /\ outcome' = [outcome EXCEPT ![p] = Raised(e)]
                       /\ UNCHANGED exc
            /\ UNCHANGED <<successes, result>>
    /\ UNCHANGED <<registryVars, handlerVars, argVars, engineKind, completed, now, input_data, status_code,
                   engine_response, logs, wake, previous>>

\* The exception leaves the outer try: re-raised, or taken by `except Exception`.
LeaveOuterTry(p, e) ==
    IF OuterHandler(e) = "log_and_retry"
    THEN /\ pc' = [pc EXCEPT ![p] = "except_exception"]
         /\ exc' = [exc EXCEPT ![p] = e]
         /\ UNCHANGED outcome
    ELSE /\ pc' = [pc EXCEPT ![p] = "raised"]
         /\ outcome' = [outcome EXCEPT ![p] = Raised(e)]
         /\ UNCHANGED exc

\* The action returned: the COMPLETED log, then `return result`.
LogCompleted(p) ==
    /\ pc[p] = "log_completed"
    /\ \E o \in SendLogOutcomes(p, "completed") :
         LET log == LogOf("completed", None, serialize_data(result[p])) IN
         /\ logs' = [logs EXCEPT ![p] = Append(@, Sent(p, log, o))]
         /\ completed' = EngineReceives(log, o.delivered)
         /\ IF o.kind = "raise"
            THEN /\ LeaveOuterTry(p, o.exc)
                 /\ UNCHANGED engine_response
            ELSE /\ engine_response' = [engine_response EXCEPT ![p] = o.resp]
                 /\ pc' = [pc EXCEPT ![p] = "returned"]
                 /\ outcome' = [outcome EXCEPT ![p] = Returned(result[p])]
                 /\ UNCHANGED exc
    /\ UNCHANGED <<registryVars, handlerVars, argVars, engineKind, now, successes, input_data, status_code, result,
                   attempts, wake, previous>>

\* The output of a FAILED log: serialize_data({"error": str(e)}).
ErrorOutput(e) == serialize_data(DictV(<<StrV(StrOf(e))>>))

\* except (ValueError, ValidationError) around the action: the FAILED log,
\* then `raise`, which the outer try re-raises.
LogValidationFailure(p) ==
    /\ pc[p] = "except_validation"
    /\ \E o \in SendLogOutcomes(p, "failed") :
         LET log == LogOf("failed", None, ErrorOutput(exc[p])) IN
         /\ logs' = [logs EXCEPT ![p] = Append(@, Sent(p, log, o))]
         /\ completed' = EngineReceives(log, o.delivered)
         /\ IF o.kind = "raise"
            THEN /\ LeaveOuterTry(p, o.exc)
                 /\ UNCHANGED engine_response
            ELSE /\ engine_response' = [engine_response EXCEPT ![p] = o.resp]
                 /\ LeaveOuterTry(p, exc[p])
    /\ UNCHANGED <<registryVars, handlerVars, argVars, engineKind, now, successes, input_data, status_code, result,
                   attempts, wake, previous>>

\* A list of fatal status codes without 404.
FailedDispatch_No404(resp, time) ==
    CASE resp.status_code = HTTP_409_CONFLICT -> "paused"
      [] resp.status_code = HTTP_400_BAD_REQUEST -> "exhausted"
      [] resp.payload.retry_at = NoRetryAt \/ resp.payload.retry_at = 0 -> "no_retry_at"
      [] resp.payload.retry_at - time > 0 -> "sleep"
      [] OTHER -> "retry"

\* A loop that takes a missing retry_at for "retry now".
FailedDispatch_RetryWithoutRetryAt(resp, time) ==
    CASE resp.status_code = HTTP_409_CONFLICT -> "paused"
      [] resp.status_code \in {HTTP_400_BAD_REQUEST, HTTP_404_NOT_FOUND} -> "exhausted"
      [] resp.payload.retry_at = NoRetryAt \/ resp.payload.retry_at = 0 -> "retry"
      [] resp.payload.retry_at - time > 0 -> "sleep"
      [] OTHER -> "retry"

\* A loop that retries at once, whatever retry_at says.
FailedDispatch_NeverSleeps(resp, time) ==
    CASE resp.status_code = HTTP_409_CONFLICT -> "paused"
      [] resp.status_code \in {HTTP_400_BAD_REQUEST, HTTP_404_NOT_FOUND} -> "exhausted"
      [] resp.payload.retry_at = NoRetryAt \/ resp.payload.retry_at = 0 -> "no_retry_at"
      [] OTHER -> "retry"

\* A loop that goes on when the engine says the retries are used up.
FailedDispatch_RetryWhenExhausted(resp, time) ==
    CASE resp.status_code = HTTP_409_CONFLICT -> "paused"
      [] resp.status_code \in {HTTP_400_BAD_REQUEST, HTTP_404_NOT_FOUND} -> "retry"
      [] resp.payload.retry_at = NoRetryAt \/ resp.payload.retry_at = 0 -> "no_retry_at"
      [] resp.payload.retry_at - time > 0 -> "sleep"
      [] OTHER -> "retry"

\* What the answer to the FAILED log of `except Exception` leads to.
FailedDispatch(resp, time) ==
    CASE resp.status_code = HTTP_409_CONFLICT -> "paused"
      [] resp.status_code \in {HTTP_400_BAD_REQUEST, HTTP_404_NOT_FOUND} -> "exhausted"
      [] resp.payload.retry_at = NoRetryAt \/ resp.payload.retry_at = 0 -> "no_retry_at"
      [] resp.payload.retry_at - time > 0 -> "sleep"
      [] OTHER -> "retry"

\* An EndureException that keeps the engine's status code.
ExhaustedError_StatusKept ==
    Exc("EndureException", "sdk", HTTP_400_BAD_REQUEST,
        "Action failed after reaching max retries")

\* EndureException(status_code=500, output={"error": ...})
ExhaustedError ==
    Exc("EndureException", "sdk", HTTP_500_INTERNAL_SERVER_ERROR,
        "Action failed after reaching max retries")

\* No clause of its own for 409: the error of 400 and 404.
PausedError_AsExhausted == ExhaustedError

\* EndureException(status_code=engine_status, output={"error": ...}) on 409
PausedError ==
    Exc("EndureException", "sdk", HTTP_409_CONFLICT, "Execution Paused or Terminated")

NoRetryAtError ==
    Exc("RuntimeError", "sdk", 0, "Engine did not provide retry_at time for retryable status")

\* except Exception: the FAILED log, then what the engine's answer asks for.
LogFailure(p) ==
    /\ pc[p] = "except_exception"
    /\ \E o \in SendLogOutcomes(p, "failed") :
         LET log == LogOf("failed", None, ErrorOutput(exc[p])) IN
         /\ logs' = [logs EXCEPT ![p] = Append(@, Sent(p, log, o))]
         /\ completed' = EngineReceives(log, o.delivered)
         /\ IF o.kind = "raise"
            THEN /\ pc' = [pc EXCEPT ![p] = "raised"]
                 /\ outcome' = [outcome EXCEPT ![p] = Raised(o.exc)]
                 /\ UNCHANGED <<engine_response, wake>>
            ELSE /\ engine_response' = [engine_response EXCEPT ![p] = o.resp]
                 /\ LET d == FailedDispatch(o.resp, now) IN
                    CASE d = "paused" ->
                            /\ pc' = [pc EXCEPT ![p] = "raised"]
                            /\ outcome' = [outcome EXCEPT ![p] = Raised(PausedError)]
                            /\ UNCHANGED wake
                      [] d = "exhausted" ->
                            /\ pc' = [pc EXCEPT ![p] = "raised"]
                            /\ outcome' = [outcome EXCEPT ![p] = Raised(ExhaustedError)]
                            /\ UNCHANGED wake
                      [] d = "no_retry_at" ->
                            /\ pc' = [pc EXCEPT ![p] = "raised"]
                            /\ outcome' = [outcome EXCEPT ![p] = Raised(NoRetryAtError)]
                            /\ UNCHANGED wake
                      [] d = "sleep" ->
                            /\ pc' = [pc EXCEPT ![p] = "sleep"]
                            /\ wake' = [wake EXCEPT ![p] = o.resp.payload.retry_at]
                            /\ UNCHANGED outcome
                      [] OTHER ->
                            /\ pc' = [pc EXCEPT ![p] = "invoke"]
                            /\ UNCHANGED <<wake, outcome>>
    /\ UNCHANGED <<registryVars, handlerVars, argVars, engineKind, now, successes, input_data, status_code, result,
                   exc, attempts, previous>>

\* time.sleep(sleep_seconds) returns once the clock has reached retry_at.
WakeUp(p) ==
    /\ pc[p] = "sleep"
    /\ now >= wake[p]
    /\ pc' = [pc EXCEPT ![p] = "invoke"]
    /\ UNCHANGED <<registryVars, handlerVars, argVars, engineKind, completed, now, successes, input_data, status_code,
                   engine_response, result, exc, logs, attempts, wake, outcome,
                   previous>>

\* Time passes.
Tick ==
    /\ now < MaxTime
    /\ now' = now + 1
    /\ UNCHANGED <<registryVars, handlerVars, argVars, engineKind, completed, successes, callVars, previous>>

\* The locals of the call are gone; what the engine holds stays.
ResetCall(p) ==
    /\ pc' = [pc EXCEPT ![p] = "idle"]
    /\ input_data' = [input_data EXCEPT ![p] = None]
    /\ status_code' = [status_code EXCEPT ![p] = 0]
    /\ engine_response' = [engine_response EXCEPT ![p] = NoResponse]
    /\ result' = [result EXCEPT ![p] = None]
    /\ exc' = [exc EXCEPT ![p] = NoExc]
    /\ logs' = [logs EXCEPT ![p] = <<>>]
    /\ attempts' = [attempts EXCEPT ![p] = <<>>]
    /\ wake' = [wake EXCEPT ![p] = 0]
    /\ outcome' = [outcome EXCEPT ![p] = NoOutcome]
    /\ UNCHANGED <<registryVars, handlerVars, argVars, engineKind, completed, now, successes>>

\* The process dies inside execute_action and the workflow is invoked again
\* in a new process.
Crash(p) ==
    /\ pc[p] \notin {"idle", "returned", "raised"}
    /\ ResetCall(p)
    /\ previous' = [previous EXCEPT ![p] = Absent]

\* The call followed the normal protocol: STARTED, one run, COMPLETED, return.
NormalProtocol(p) ==
    /\ pc[p] = "returned"
    /\ attempts[p] = <<"returned">>
    /\ [i \in DOMAIN logs[p] |-> logs[p][i].status] = <<"started", "completed">>

\* execute_action has returned or raised; the same process calls it again.
NextCall(p) ==
    /\ pc[p] \in {"returned", "raised"}
    /\ ResetCall(p)
    /\ previous' = [previous EXCEPT ![p] = IF NormalProtocol(p) THEN result[p] ELSE Absent]

Next ==
    \/ \E p \in Procs : ExecuteAction(p)
    \/ \E p \in Procs : InvokeAction(p)
    \/ \E p \in Procs : LogCompleted(p)
    \/ \E p \in Procs : LogValidationFailure(p)
    \/ \E p \in Procs : LogFailure(p)
    \/ \E p \in Procs : WakeUp(p)
    \/ \E p \in Procs : Crash(p)
    \/ \E p \in Procs : NextCall(p)
    \/ Tick

Spec == Init /\ [][Next]_vars

\* The execute_action calls of two contexts, interleaved in any way.
InitTwoContexts ==
    InitContexts("scheduling", Contexts) /\ InitArgs(DefaultCallSite) /\ InitHandler({"Any"})
    /\ InitIdle

NextContexts ==
    \/ \E p \in Contexts : ExecuteAction(p)
    \/ \E p \in Contexts : InvokeAction(p)
    \/ \E p \in Contexts : LogCompleted(p)
    \/ \E p \in Contexts : LogValidationFailure(p)
    \/ \E p \in Contexts : LogFailure(p)
    \/ \E p \in Contexts : WakeUp(p)
    \/ Tick

SpecContexts == InitTwoContexts /\ [][NextContexts]_vars

\* One call of execute_action in a process that does not die, with an engine
\* that answers: send_log and the action callable return or raise, the clock
\* goes on, and the engine schedules a retry only while the call is below
\* MaxInvocations.
NextOneCall ==
    \/ \E p \in Procs : ExecuteAction(p)
    \/ \E p \in Procs : InvokeAction(p)
    \/ \E p \in Procs : LogCompleted(p)
    \/ \E p \in Procs : LogValidationFailure(p)
    \/ \E p \in Procs : LogFailure(p)
    \/ \E p \in Procs : WakeUp(p)
    \/ Tick

\* The call does not stand still while it has a step to take: each step is
\* a call that returns or a sleep of finite length, and the clock goes on.
FairOneCall == WF_vars(NextOneCall)

InitOneCall ==
    InitCall("protocol") /\ InitArgs(DefaultCallSite) /\ InitHandler({"Any"}) /\ InitIdle

SpecOneCall == InitOneCall /\ [][NextOneCall]_vars /\ FairOneCall

\* The host cancels the request of p (the client went away, a deadline
\* passed) while its execute_action is inside time.sleep or about to return
\* from requests.patch.  Both are blocking calls: task.cancel() marks the
\* task, and the mark is looked at when the coroutine next suspends at an
\* await; execute_action itself never looks at it.  A call of send_log is one
\* step here, so a request cancelled during the call is cancelled before the
\* step and the log in flight counts as handed over.
InEngineCall(p) == pc[p] \in {"log_completed", "except_validation", "except_exception"}
CancelRequest(p) ==
    /\ \A c \in cancelled : c.p # p
    /\ pc[p] = "sleep" \/ InEngineCall(p)
    /\ cancelled' = cancelled \cup
          {[p |-> p, logs |-> Len(logs[p]) + (IF InEngineCall(p) THEN 1 ELSE 0)]}
    /\ UNCHANGED <<handlerVars, argVars, engineVars, now, successes, callVars, previous,
                   _instance, registries, held, services_copy, last, threads, unset,
                   clientVars>>

NextCancel ==
    \/ \E p \in Procs : ExecuteAction(p)
    \/ \E p \in Procs : InvokeAction(p)
    \/ \E p \in Procs : LogCompleted(p)
    \/ \E p \in Procs : LogValidationFailure(p)
    \/ \E p \in Procs : LogFailure(p)
    \/ \E p \in Procs : WakeUp(p)
    \/ \E p \in Procs : CancelRequest(p)
    \/ Tick

SpecCancel == Init /\ [][NextCancel]_vars

\* The calls of two contexts as coroutines on one event loop.  A coroutine
\* runs until it awaits; execute_action awaits at `await action(input_data)`
\* only, and its sleep is time.sleep, which returns to the coroutine and not
\* to the loop.  The call of p is off the loop before it starts, after it
\* ends, and while it awaits its action.
Suspended(p) == pc[p] \in {"idle", "returned", "raised", "invoke"}

\* The loop runs the coroutine of q: no other coroutine is in the middle of
\* a run.
LoopStep(q) ==
    /\ \A p \in Contexts \ {q} : Suspended(p)
    /\ \/ ExecuteAction(q)
       \/ InvokeAction(q)
       \/ LogCompleted(q)
       \/ LogValidationFailure(q)
       \/ LogFailure(q)
       \/ WakeUp(q)

NextLoop ==
    \/ \E q \in Contexts : LoopStep(q)
    \/ Tick

SpecEventLoop == InitTwoContexts /\ [][NextLoop]_vars
SpecRecording == InitRecording /\ [][Next]_vars
SpecCallSites == InitCallSites /\ [][Next]_vars

\* ------------------------------------------------------------------ workflow handler

\* Everything execute_action works on: the handler's own steps leave it alone.
executeVars == <<argVars, engineVars, now, successes, callVars, previous>>

\* The bodies a request may carry: text that is no JSON, a JSON list, and JSON
\* objects with or without the fields execution_id and input.
RequestInputs == {IntV("0"), DictV(<<IntV("7")>>), DictV(<<StrV("x")>>)}
Bodies ==
    {[NoBody EXCEPT !.kind = "invalid_json"], [NoBody EXCEPT !.kind = "list"]}
    \cup
    {[kind |-> "dict", has_id |-> i, has_input |-> n,
      execution_id |-> IF i THEN e ELSE "", input |-> IF n THEN v ELSE None] :
        i \in BOOLEAN, n \in BOOLEAN, e \in {"e1", "e2"}, v \in RequestInputs}

\* The hints a workflow function may put on its input parameter: none (Any),
\* or a pydantic model with one int field.
InputTypes == {"Any", "BaseModel"}

\* A check that asks for execution_id only.
ParseBody_InputOptional(b) ==
    CASE b.kind = "invalid_json" -> "invalid_json"
      [] b.kind # "dict" -> "not_object"
      [] ~b.has_id -> "missing_fields"
      [] OTHER -> "ok"

\* body = await request.json() and the two checks on it.
ParseBody(b) ==
    CASE b.kind = "invalid_json" -> "invalid_json"
      [] b.kind # "dict" -> "not_object"
      [] ~b.has_id \/ ~b.has_input -> "missing_fields"
      [] OTHER -> "ok"

EndureError(status, error, details) ==
    HandlerError("EndureException", status, error, details)

\* The except clauses of the handler: what leaves the handler for an
\* exception raised inside its try.  A RequestException has no status_code
\* attribute, so reading re.status_code raises AttributeError inside the
\* except clause; an exception that is no Exception passes through.
Translate(e) ==
    CASE e.type = "ValidationError" ->
            EndureError(HTTP_422_UNPROCESSABLE_ENTITY, "Validation error", e.type)
      [] e.type = "ValueError" ->
            EndureError(HTTP_400_BAD_REQUEST, "Value error", e.type)
      [] e.type = "HTTPException" -> EndureError(e.status_code, e.error, NoDetails)
      [] e.type = "EndureException" -> e
      [] e.type = "RequestException" ->
            HandlerError("AttributeError", 0, "", "object has no attribute 'status_code'")
      [] e.type = "CancelledError" -> e
      [] OTHER ->
            EndureError(HTTP_500_INTERNAL_SERVER_ERROR, "Internal server error", e.type)

HandlerRaised(e) == [kind |-> "raised", output |-> None, exc |-> Translate(e)]
HandlerReturned(output) ==
    [kind |-> "returned", output |-> output, exc |-> HandlerError("none", 0, "", NoDetails)]

\* The handler up to mark_execution_as_running: the body is read and checked.
HandlerParse ==
    /\ request_pc = "idle"
    /\ \E b \in Bodies :
         /\ body' = b
         /\ LET parsed == ParseBody(b) IN
            CASE parsed = "ok" ->
                    /\ request_pc' = "mark"
                    /\ UNCHANGED response
              [] parsed = "invalid_json" ->
                    /\ request_pc' = "done"
                    /\ response' = HandlerRaised(HandlerError("ValueError", 0, "", NoDetails))
              [] parsed = "not_object" ->
                    /\ request_pc' = "done"
                    /\ response' = HandlerRaised(
                          EndureError(HTTP_400_BAD_REQUEST,
                                      "Request body must be a JSON object", NoDetails))
              [] OTHER ->
                    /\ request_pc' = "done"
                    /\ response' = HandlerRaised(
                          EndureError(HTTP_400_BAD_REQUEST,
                                      "Request must include 'execution_id' and 'input' fields",
                                      NoDetails))
    /\ UNCHANGED <<input_type, marked, mark_response, func_calls, func_raised, executeVars, registryVars>>

\* InternalEndureClient.mark_execution_as_running: it returns the envelope of
\* any HTTP answer, error answers included, or raises what send_log raises.
MarkOutcomes ==
    {[kind |-> "response", status_code |-> c, exc |-> "none"] : c \in StatusCodes}
    \cup
    {[kind |-> "raise", status_code |-> 0, exc |-> t] : t \in SendLogExcTypes}

\* A handler that goes on whatever mark_execution_as_running did.
AfterMark_IgnoreFailure(o) == "run"

\* The handler goes on when mark_execution_as_running returned, whatever the
\* status code in the envelope; what it raised goes to the except clauses.
AfterMark(o) == IF o.kind = "response" THEN "run" ELSE "except"

\* ctx = WorkflowContext(...); mark_execution_as_running(body["execution_id"])
HandlerMarkRunning ==
    /\ request_pc = "mark"
    /\ \E o \in MarkOutcomes :
         /\ marked' = Append(marked, body.execution_id)
         /\ mark_response' = o.status_code
         /\ IF AfterMark(o) = "run"
            THEN /\ request_pc' = "run"
                 /\ UNCHANGED response
            ELSE /\ request_pc' = "done"
                 /\ response' = HandlerRaised(HandlerError(o.exc, 0, "", NoDetails))
    /\ UNCHANGED <<input_type, body, func_calls, func_raised, executeVars, registryVars>>

\* Workflow._convert_input: a dict is turned into the model the hint names;
\* a dict the model rejects raises ValueError.
ConvertInput(raw_input) ==
    CASE input_type = "Any" -> [ok |-> TRUE, value |-> raw_input]
      [] raw_input.t # "dict" -> [ok |-> TRUE, value |-> raw_input]
      [] \A i \in DOMAIN raw_input.items : raw_input.items[i].t = "int" ->
            [ok |-> TRUE, value |-> ModelV(raw_input.items)]
      [] OTHER -> [ok |-> FALSE, value |-> None]

\* What the user function does with the context and its input: it returns a
\* value, or raises; what execute_action raises in it comes out of it.
DataclassV(items) == Val("dataclass", "", items)
FuncReturns == {IntV("0"), ModelV(<<IntV("7")>>), DataclassV(<<ModelV(<<IntV("7")>>)>>)}
FuncRaises ==
    {HandlerError(t, 0, "", NoDetails) :
        t \in {"ValueError", "ValidationError", "RequestException", "RuntimeError",
               "CancelledError"}}
    \cup {HandlerError("HTTPException", HTTP_404_NOT_FOUND, "not found", NoDetails)}
    \cup {EndureError(e.code, e.error, NoDetails) : e \in {PausedError, ExhaustedError}}

\* output.model_dump() for a model, asdict(output) for a dataclass.
HandlerOutput(output) ==
    CASE output.t = "BaseModel" -> model_dump(output)
      [] output.t = "dataclass" -> asdict(output)
      [] OTHER -> output

\* The input is converted, the user function runs, and the handler returns
\* {"output": output} or raises what the except clauses make of the exception.
HandlerRunWorkflow ==
    /\ request_pc = "run"
    /\ request_pc' = "done"
    /\ LET converted_input == ConvertInput(body.input) IN
       IF ~converted_input.ok
       THEN /\ response' = HandlerRaised(HandlerError("ValueError", 0, "", NoDetails))
            /\ UNCHANGED <<func_calls, func_raised>>
       ELSE /\ func_calls' = Append(func_calls, <<body.execution_id, converted_input.value>>)
            /\ \/ \E output \in FuncReturns :
                    /\ response' = HandlerReturned(HandlerOutput(output))
                    /\ UNCHANGED func_raised
               \/ \E e \in FuncRaises :
                    /\ response' = HandlerRaised(e)
                    /\ func_raised' = e
    /\ UNCHANGED <<input_type, body, marked, mark_response, executeVars, registryVars>>

\* The request is over; the next one arrives.
HandlerNextRequest ==
    /\ request_pc = "done"
    /\ request_pc' = "idle"
    /\ body' = NoBody
    /\ marked' = <<>>
    /\ mark_response' = 0
    /\ func_calls' = <<>>
    /\ response' = NoResult
    /\ func_raised' = NoResult.exc
    /\ UNCHANGED <<input_type, executeVars, registryVars>>

NextHandler ==
    \/ HandlerParse
    \/ HandlerMarkRunning
    \/ HandlerRunWorkflow
    \/ HandlerNextRequest

\* A workflow with either input hint, before its first request.
InitRequests ==
    InitCall("any") /\ InitArgs(DefaultCallSite) /\ InitHandler(InputTypes) /\ InitIdle

SpecHandler == InitRequests /\ [][NextHandler]_vars

\* ------------------------------------------------------------------ internal client

\* The bodies an engine's response may carry: JSON objects, JSON null, and
\* text that is no JSON (an HTML page, nothing at all).
HttpBodies ==
    {<<TRUE, DictV(<<>>)>>, <<TRUE, DictV(<<IntV("7")>>)>>, <<TRUE, None>>,
     <<FALSE, StrV("<html>")>>, <<FALSE, StrV("")>>}
HttpOutcomes ==
    {HttpFailure(e) : e \in {"ConnectionError", "Timeout"}}
    \cup {HttpResponse(c, b[1], b[2]) : c \in StatusCodes, b \in HttpBodies}
Exchanges ==
    {[base_url |-> u, log |-> l, action_name |-> a, http |-> h] :
        u \in BOOLEAN, l \in BOOLEAN, a \in BOOLEAN, h \in HttpOutcomes}

\* response.raise_for_status(): HTTPError for a status from 400 to 599
RaisesForStatus(http) == 400 <= http.status_code /\ http.status_code < 600

\* A parse that keeps the text of a body that is no JSON.
JsonOrEmpty_KeepText(http) == http.body
\* response.json(), and {} when it raises
JsonOrEmpty(http) == IF http.is_json THEN http.body ELSE DictV(<<>>)

\* Response.to_dict(): the envelope, with {} for a payload that is None.
\* `requests` counts the calls of requests.patch the client made on the way.
to_dict(op, status, payload, requests) ==
    [op |-> op, kind |-> "returned", status_code |-> status,
     payload |-> IF payload = None THEN DictV(<<>>) ELSE payload, exc |-> "none",
     requests |-> requests]
ClientRaises(op, e, requests) ==
    [op |-> op, kind |-> "raised", status_code |-> 0, payload |-> None, exc |-> e,
     requests |-> requests]

\* A client that tries once more when the engine cannot be reached.
PatchCalls_RetryUnreachable(http) == IF http.kind = "failure" THEN 2 ELSE 1
\* The calls of requests.patch in a call that got past its checks: the one
\* statement `response = requests.patch(...)`, in no loop.
PatchCalls(http) == 1

\* InternalEndureClient.send_log
send_log(x) ==
    IF ~x.base_url \/ ~x.log \/ ~x.action_name
    THEN ClientRaises("send_log", "ValueError", 0)
    ELSE IF x.http.kind = "failure"
    THEN ClientRaises("send_log", x.http.exc, PatchCalls(x.http))
    ELSE IF RaisesForStatus(x.http)
    THEN to_dict("send_log", x.http.status_code, JsonOrEmpty(x.http), PatchCalls(x.http))
    ELSE to_dict("send_log", x.http.status_code, JsonOrEmpty(x.http), PatchCalls(x.http))

\* InternalEndureClient.mark_execution_as_running: the body is not read
mark_execution_as_running(x) ==
    IF ~x.base_url
    THEN ClientRaises("mark_execution_as_running", "ValueError", 0)
    ELSE IF x.http.kind = "failure"
    THEN ClientRaises("mark_execution_as_running", x.http.exc, PatchCalls(x.http))
    ELSE to_dict("mark_execution_as_running", x.http.status_code, None, PatchCalls(x.http))

otherVars == <<handlerVars, executeVars, _instance, registries, held, services_copy,
               last, threads, unset, cancelled>>

\* A call of send_log: the configuration, the arguments and what the engine
\* does are the call's inputs.
SendLog ==
    \E x \in Exchanges :
        /\ exchange' = x
        /\ client_result' = send_log(x)
        /\ UNCHANGED otherVars

MarkExecutionAsRunning ==
    \E x \in Exchanges :
        /\ exchange' = x
        /\ client_result' = mark_execution_as_running(x)
        /\ UNCHANGED otherVars

NextClient ==
    \/ SendLog
    \/ MarkExecutionAsRunning

SpecClient == Init /\ [][NextClient]_vars

\* ------------------------------------------------------------------ service registry

\* The handler's and execute_action's variables: the registry leaves them alone.
requestVars == <<handlerVars, executeVars, threads, unset, clientVars, cancelled>>

\* The names a Service may be given and register_workflow may be called with:
\* two names, the empty string, and a value that is no string.
ServiceNameArgs == {StrV("s1"), StrV("s2"), StrV(""), None}

\* A retention value: t is its type, n its number (0 when it has none, 1 for
\* True).
Retention(t, n) == [t |-> t, n |-> n]
\* Service.workflow(**config): retention given or not.
Configs ==
    {NoConfig}
    \cup {[given |-> TRUE, retention |-> Retention("int", n)] : n \in {-1, 0, 30, 31}}
    \cup {[given |-> TRUE, retention |-> Retention(t, 0)] : t \in {"str", "NoneType"}}
    \cup {[given |-> TRUE, retention |-> Retention("float", 7)],
          [given |-> TRUE, retention |-> Retention("bool", 1)]}

\* A user function as the decorator sees it: __name__, __code__.co_varnames
\* (positional parameters first, then keyword-only ones), co_argcount (the
\* number of positional parameters), __annotations__.get("ctx"), and the
\* descriptors Workflow._get_io derives from its hints.
Func(func_name, co_varnames, co_argcount, ctx) ==
    [t |-> "function", name |-> func_name, co_varnames |-> co_varnames,
     co_argcount |-> co_argcount, ctx |-> ctx,
     input |-> IF func_name = "w1" THEN "dict" ELSE "Any",
     output |-> IF func_name = "w1" THEN "str" ELSE "Any"]
\* def w1(ctx: WorkflowContext, input: dict) -> str   and
\* def w2(input, ctx: WorkflowContext)
ValidFuncs ==
    {Func("w1", <<"ctx", "input">>, 2, "WorkflowContext"),
     Func("w2", <<"input", "ctx">>, 2, "WorkflowContext")}
Funcs ==
    ValidFuncs
    \cup {Func("w1", <<"input">>, 1, "None"),
          Func("w1", <<"foo", "ctx">>, 2, "WorkflowContext"),
          Func("w2", <<"input", "ctx", "extra">>, 3, "WorkflowContext"),
          Func("w2", <<"ctx", "input">>, 2, "None"),
          Func("w2", <<"ctx", "input">>, 2, "dict"),
          \* def w2(ctx: WorkflowContext, input, *, flag)
          Func("w2", <<"ctx", "input", "flag">>, 2, "WorkflowContext")}

\* Workflow.__init__
Workflow(func, retention_period) ==
    [t |-> "Workflow", name |-> func.name, input |-> func.input,
     output |-> func.output, retention_period |-> retention_period]
\* What register_workflow may be handed: workflows, or None.
WorkflowArgs ==
    {Workflow(f, Retention("int", 7)) : f \in ValidFuncs}
    \cup {Workflow(Func("w1", <<"ctx", "input">>, 2, "WorkflowContext"), Retention("int", 30))}
    \cup {NoWorkflow}

\* isinstance(retention, int): bool is a subclass of int.
IsInt(retention) == retention.t \in {"int", "bool"}

\* validate_retention_period: the error it raises, or "none"
validate_retention_period(retention) ==
    CASE ~IsInt(retention) -> "Retention period must be an integer."
      [] retention.n < 0 -> "Retention period must be a non-negative integer."
      [] retention.n > 30 -> "Retention period cannot exceed 30 days."
      [] OTHER -> "none"

\* A registry object as __new__ makes it.
EmptyRegistry == [_services |-> <<>>, routes |-> <<>>]

\* ServiceRegistry(): the class attribute and the objects after __new__, which
\* makes an instance only when there is none.
New ==
    IF _instance = 0
    THEN [instance |-> Len(registries) + 1, registries |-> Append(registries, EmptyRegistry)]
    ELSE [instance |-> _instance, registries |-> registries]

\* service_name in self._services, and the place of its entry.
HasService(services, service_name) ==
    \E i \in DOMAIN services : services[i].name = service_name
ServiceAt(services, service_name) ==
    CHOOSE i \in DOMAIN services : services[i].name = service_name

\* A register_workflow that puts the workflow at the head of its list.
AddWorkflow_AtHead(workflows, workflow) == <<workflow>> \o workflows
\* self._services[service_name].append(workflow)
AddWorkflow(workflows, workflow) == Append(workflows, workflow)

\* A duplicate check that never finds one.
IsDuplicate_Never(workflows, workflow) == FALSE
\* any(w.name == workflow.name for w in self._services[service_name])
IsDuplicate(workflows, workflow) ==
    \E i \in DOMAIN workflows : workflows[i].name = workflow.name

\* ServiceRegistry.register_workflow on the _services of one registry: the
\* error it raises, or "none", and the _services it leaves.  The entry of a
\* new service is made before the duplicate check.
register_workflow(services, service_name, workflow) ==
    IF ~Truthy(service_name) \/ service_name.t # "str"
    THEN [raised |-> "Service name must be a non-empty string", services |-> services]
    ELSE IF workflow.t # "Workflow"
    THEN [raised |-> "Workflow must be a valid Workflow instance", services |-> services]
    ELSE LET entered == IF HasService(services, service_name.v)
                        THEN services
                        ELSE Append(services, [name |-> service_name.v, workflows |-> <<>>])
             i == ServiceAt(entered, service_name.v)
         IN IF IsDuplicate(entered[i].workflows, workflow)
            THEN [raised |-> "Workflow already exists", services |-> entered]
            ELSE [raised |-> "none",
                  services |-> [entered EXCEPT ![i].workflows = AddWorkflow(@, workflow)]]

\* ServiceRegistry.register_workflow_in_router: self._router.add_api_route
Route(path, method) == [path |-> path, methods |-> {method}]
register_workflow_in_router(routes, service_name, workflow) ==
    Append(routes, Route(<<"execute", service_name.v, workflow.name>>, "POST"))

\* DurableApp._discover on the _services of the registry the app holds.
Discover(services) ==
    [i \in DOMAIN services |->
        [name |-> services[i].name,
         workflows |->
            [j \in DOMAIN services[i].workflows |->
                [name |-> services[i].workflows[j].name,
                 input |-> services[i].workflows[j].input,
                 output |-> services[i].workflows[j].output,
                 idem_retention |-> services[i].workflows[j].retention_period]]]]

\* A reference to registry r kept by an object.
Holder(kind, service_name, r) == [kind |-> kind, name |-> service_name, registry |-> r]

\* registry = ServiceRegistry()
NewServiceRegistry ==
    /\ Cardinality(held) < MaxHeld
    /\ _instance' = New.instance
    /\ registries' = New.registries
    /\ held' = held \cup {Holder("ServiceRegistry", None, New.instance)}
    /\ last' = [NoCall EXCEPT !.op = "ServiceRegistry", !.registry = New.instance]
    /\ UNCHANGED <<services_copy, requestVars>>

\* Service(name): self.name = name; self.registry = ServiceRegistry()
NewService(names) ==
    /\ Cardinality(held) < MaxHeld
    /\ \E service_name \in names :
         /\ held' = held \cup {Holder("Service", service_name, New.instance)}
         /\ last' = [NoCall EXCEPT !.op = "Service", !.registry = New.instance,
                                   !.service_name = service_name]
    /\ _instance' = New.instance
    /\ registries' = New.registries
    /\ UNCHANGED <<services_copy, requestVars>>

\* DurableApp(app): self.serviceRegistry = ServiceRegistry(), and the route
\* /discover is added to the registry's router.
NewDurableApp ==
    /\ Cardinality(held) < MaxHeld
    /\ \A h \in held : h.kind # "DurableApp"
    /\ _instance' = New.instance
    /\ registries' = [New.registries EXCEPT
                        ![New.instance].routes = Append(@, Route(<<"discover">>, "GET"))]
    /\ held' = held \cup {Holder("DurableApp", None, New.instance)}
    /\ last' = [NoCall EXCEPT !.op = "DurableApp", !.registry = New.instance]
    /\ UNCHANGED <<services_copy, requestVars>>

\* registry.register_workflow(service_name, workflow) through any reference.
RegisterWorkflow(names, workflows) ==
    \E h \in held, service_name \in names, workflow \in workflows :
        LET r == h.registry
            done == register_workflow(registries[r]._services, service_name, workflow)
        IN /\ registries' = [registries EXCEPT ![r]._services = done.services]
           /\ last' = [NoCall EXCEPT !.op = "register_workflow", !.registry = r,
                                     !.service_name = service_name,
                                     !.workflow = workflow, !.raised = done.raised]
           /\ UNCHANGED <<_instance, held, services_copy, requestVars>>

\* input_keys = func.__code__.co_varnames[: func.__code__.co_argcount]
CheckedNames(func) == SubSeq(func.co_varnames, 1, func.co_argcount)

\* The checks of Service.workflow's decorator on the function: the error it
\* raises, or "none".
CheckSignature(func) ==
    LET input_keys == CheckedNames(func)
        names == {input_keys[i] : i \in DOMAIN input_keys}
    IN IF ~("input" \in names /\ "ctx" \in names) \/ Len(input_keys) # 2
       THEN "The workflow function must have an 'input' and 'ctx' argument."
       ELSE IF func.ctx # "WorkflowContext"
       THEN "The 'ctx' argument must be of type WorkflowContext."
       ELSE "none"

\* A decorator that takes 0 when no retention is given.
RetentionOf_DefaultZero(config) ==
    IF config.given THEN config.retention ELSE Retention("int", 0)
\* config.get("retention", 7)
RetentionOf(config) == IF config.given THEN config.retention ELSE Retention("int", 7)

\* @service.workflow(**config) on func: the decorator validates the retention
\* and the signature, makes the Workflow, registers it and then its route, and
\* returns func.
WorkflowDecorator(funcs, configs) ==
    \E h \in held, func \in funcs, config \in configs :
        /\ h.kind = "Service"
        /\ LET r == h.registry
               retention_period == RetentionOf(config)
               invalid == validate_retention_period(retention_period)
               unfit == CheckSignature(func)
               workflow == Workflow(func, retention_period)
               done == register_workflow(registries[r]._services, h.name, workflow)
               call == [NoCall EXCEPT !.op = "workflow", !.registry = r,
                                      !.service_name = h.name, !.func = func,
                                      !.config = config]
           IN IF invalid # "none"
              THEN /\ last' = [call EXCEPT !.raised = invalid]
                   /\ UNCHANGED registries
              ELSE IF unfit # "none"
              THEN /\ last' = [call EXCEPT !.raised = unfit]
                   /\ UNCHANGED registries
              ELSE IF done.raised # "none"
              THEN /\ last' = [call EXCEPT !.workflow = workflow, !.raised = done.raised]
                   /\ registries' = [registries EXCEPT ![r]._services = done.services]
              ELSE /\ last' = [call EXCEPT !.workflow = workflow, !.returned = <<func>>]
                   /\ registries' =
                        [registries EXCEPT
                            ![r]._services = done.services,
                            ![r].routes = register_workflow_in_router(@, h.name, workflow)]
        /\ UNCHANGED <<_instance, held, services_copy, requestVars>>

\* GET /discover on the app: what _discover returns.
GetDiscover ==
    \E h \in held :
        /\ h.kind = "DurableApp"
        /\ last' = [NoCall EXCEPT !.op = "_discover", !.registry = h.registry,
                        !.returned = Discover(registries[h.registry]._services)]
        /\ UNCHANGED <<_instance, registries, held, services_copy, requestVars>>

\* The list an entry of the returned dict refers to.
CopiedList(entry) ==
    IF entry.shared
    THEN LET services == registries[services_copy.registry]._services
         IN services[ServiceAt(services, entry.name)].workflows
    ELSE entry.workflows

\* registry.clear() through any reference: the object's tables are emptied,
\* the class attribute is reset and a new instance is made.  A dict returned
\* by get_services before keeps the lists it refers to.
Clear ==
    /\ Len(registries) < MaxInstances
    /\ \E h \in held :
         LET r == h.registry IN
         /\ registries' = Append([registries EXCEPT ![r] = EmptyRegistry], EmptyRegistry)
         /\ _instance' = Len(registries) + 1
         /\ services_copy' =
                IF services_copy.taken /\ services_copy.registry = r
                THEN [services_copy EXCEPT
                        !.entries = [i \in DOMAIN @ |->
                                        [@[i] EXCEPT !.shared = FALSE,
                                                     !.workflows = CopiedList(@[i])]]]
                ELSE services_copy
         /\ last' = [NoCall EXCEPT !.op = "clear", !.registry = r]
    /\ UNCHANGED <<held, requestVars>>

\* Registrations under two service names, read through the discovery route.
NextRegistry ==
    \/ NewServiceRegistry
    \/ NewService({StrV("s1")})
    \/ NewDurableApp
    \/ RegisterWorkflow(ServiceNameArgs, WorkflowArgs)
    \/ GetDiscover

SpecRegistry == Init /\ [][NextRegistry]_vars

\* References taken before and after clear().
NextClear ==
    \/ NewServiceRegistry
    \/ NewService({StrV("s1")})
    \/ NewDurableApp
    \/ RegisterWorkflow({StrV("s1")}, {Workflow(f, Retention("int", 7)) : f \in ValidFuncs})
    \/ WorkflowDecorator(ValidFuncs, {NoConfig})
    \/ GetDiscover
    \/ Clear

SpecClear == Init /\ [][NextClear]_vars

\* services = registry.get_services(): self._services.copy() makes a new
\* dict whose values are the registry's own lists.
GetServices ==
    \E h \in held :
        LET services == registries[h.registry]._services IN
        /\ services_copy' =
              [taken |-> TRUE, registry |-> h.registry,
               entries |-> [i \in DOMAIN services |->
                              [name |-> services[i].name, shared |-> TRUE,
                               workflows |-> <<>>]]]
        /\ last' = [NoCall EXCEPT !.op = "get_services", !.registry = h.registry]
        /\ UNCHANGED <<_instance, registries, held, requestVars>>

\* The caller writes to the dict it was handed: del services[name].
CopyDelete ==
    /\ services_copy.taken
    /\ \E i \in DOMAIN services_copy.entries :
         services_copy' =
            [services_copy EXCEPT
                !.entries = SubSeq(@, 1, i - 1) \o SubSeq(@, i + 1, Len(@))]
    /\ last' = [NoCall EXCEPT !.op = "del services[name]",
                              !.registry = services_copy.registry]
    /\ UNCHANGED <<_instance, registries, held, requestVars>>

\* The caller writes to the dict it was handed: services[name] = [].
CopySetItem ==
    /\ services_copy.taken
    /\ \E service_name \in {"s1", "s2"} :
         LET entries == services_copy.entries
             entry == [name |-> service_name, shared |-> FALSE, workflows |-> <<>>]
         IN services_copy' =
              [services_copy EXCEPT
                 !.entries = IF HasService(entries, service_name)
                             THEN [entries EXCEPT ![ServiceAt(entries, service_name)] = entry]
                             ELSE Append(entries, entry)]
    /\ last' = [NoCall EXCEPT !.op = "services[name] = []",
                              !.registry = services_copy.registry]
    /\ UNCHANGED <<_instance, registries, held, requestVars>>

\* The list behind entry i of the returned dict becomes `workflows`: the
\* registry's own list when the entry still refers to it.
WriteCopiedList(i, workflows) ==
    LET entry == services_copy.entries[i]
        r == services_copy.registry
        services == registries[r]._services
    IN IF entry.shared
       THEN /\ registries' =
                 [registries EXCEPT
                    ![r]._services[ServiceAt(services, entry.name)].workflows = workflows]
            /\ UNCHANGED services_copy
       ELSE /\ services_copy' = [services_copy EXCEPT !.entries[i].workflows = workflows]
            /\ UNCHANGED registries

\* The caller writes to a list in the dict: services[name].append(workflow).
CopyListAppend ==
    /\ services_copy.taken
    /\ \E i \in DOMAIN services_copy.entries,
          workflow \in {Workflow(f, Retention("int", 7)) : f \in ValidFuncs} :
         /\ Len(CopiedList(services_copy.entries[i])) < MaxAppended
         /\ WriteCopiedList(i, Append(CopiedList(services_copy.entries[i]), workflow))
    /\ last' = [NoCall EXCEPT !.op = "services[name].append(workflow)",
                              !.registry = services_copy.registry]
    /\ UNCHANGED <<_instance, held, requestVars>>

\* The caller writes to a list in the dict: services[name].clear().
CopyListClear ==
    /\ services_copy.taken
    /\ \E i \in DOMAIN services_copy.entries : WriteCopiedList(i, <<>>)
    /\ last' = [NoCall EXCEPT !.op = "services[name].clear()",
                              !.registry = services_copy.registry]
    /\ UNCHANGED <<_instance, held, requestVars>>

\* A caller of get_services that writes to what it was handed.
NextCopies ==
    \/ NewServiceRegistry
    \/ RegisterWorkflow({StrV("s1")}, {Workflow(f, Retention("int", 7)) : f \in ValidFuncs})
    \/ GetServices
    \/ CopyDelete
    \/ CopySetItem
    \/ CopyListAppend
    \/ CopyListClear

SpecCopies == Init /\ [][NextCopies]_vars

\* Two threads, each running
\*     registry = ServiceRegistry(); registry.register_workflow(service_name, workflow)
\* with nothing that serialises them: a thread may be suspended between any
\* two lines, and each action below is one line of one thread.  line is the
\* source line the thread is about to run (0 before it starts, -1 when its
\* call is over).
LineDone == -1
sequentialVars == <<held, services_copy, last, handlerVars, executeVars, clientVars,
                    cancelled>>
GoTo(t, line) == threads' = [threads EXCEPT ![t].line = line]

\* The thread starts with its arguments.
ThreadStart(t) ==
    /\ threads[t].line = 0
    /\ \E workflow \in {Workflow(f, Retention("int", 7)) : f \in ValidFuncs} :
          threads' = [threads EXCEPT ![t].line = 40, ![t].service_name = StrV("s1"),
                                     ![t].workflow = workflow]
    /\ UNCHANGED <<_instance, registries, unset, sequentialVars>>

\* __new__, line 40: if cls._instance is None
NewIfNone(t) ==
    /\ threads[t].line = 40
    /\ GoTo(t, IF _instance = 0 THEN 41 ELSE 44)
    /\ UNCHANGED <<_instance, registries, unset, sequentialVars>>

\* line 41: cls._instance = super().__new__(cls); the object has no
\* attributes yet
NewCreate(t) ==
    /\ threads[t].line = 41
    /\ registries' = Append(registries, EmptyRegistry)
    /\ unset' = unset \cup {Len(registries) + 1}
    /\ _instance' = Len(registries) + 1
    /\ GoTo(t, 42)
    /\ UNCHANGED sequentialVars

\* line 42: cls._instance._services = {}
NewSetServices(t) ==
    /\ threads[t].line = 42
    /\ registries' = [registries EXCEPT ![_instance]._services = <<>>]
    /\ unset' = unset \ {_instance}
    /\ GoTo(t, 43)
    /\ UNCHANGED <<_instance, sequentialVars>>

\* line 43: cls._instance._router = APIRouter()
NewSetRouter(t) ==
    /\ threads[t].line = 43
    /\ registries' = [registries EXCEPT ![_instance].routes = <<>>]
    /\ GoTo(t, 44)
    /\ UNCHANGED <<_instance, unset, sequentialVars>>

\* line 44: return cls._instance; the thread goes on to register_workflow
NewReturn(t) ==
    /\ threads[t].line = 44
    /\ threads' = [threads EXCEPT ![t].self = _instance, ![t].line = 60]
    /\ UNCHANGED <<_instance, registries, unset, sequentialVars>>

\* The thread's call ends; raised is "none" when it returned.
ThreadEnds(t, raised) == threads' = [threads EXCEPT ![t].line = LineDone, ![t].raised = raised]

\* register_workflow, lines 60-63: the checks of the arguments
RegisterValidate(t) ==
    /\ threads[t].line = 60
    /\ IF ~Truthy(threads[t].service_name) \/ threads[t].service_name.t # "str"
       THEN ThreadEnds(t, "Service name must be a non-empty string")
       ELSE IF threads[t].workflow.t # "Workflow"
       THEN ThreadEnds(t, "Workflow must be a valid Workflow instance")
       ELSE GoTo(t, 65)
    /\ UNCHANGED <<_instance, registries, unset, sequentialVars>>

\* line 65: if service_name not in self._services; AttributeError when the
\* object has no _services yet
RegisterIfMissing(t) ==
    /\ threads[t].line = 65
    /\ IF threads[t].self \in unset
       THEN ThreadEnds(t, "AttributeError")
       ELSE GoTo(t, IF HasService(registries[threads[t].self]._services,
                                  threads[t].service_name.v)
                    THEN 69 ELSE 66)
    /\ UNCHANGED <<_instance, registries, unset, sequentialVars>>

\* self._services[service_name] = value
SetItem(services, service_name, value) ==
    IF HasService(services, service_name)
    THEN [services EXCEPT ![ServiceAt(services, service_name)].workflows = value]
    ELSE Append(services, [name |-> service_name, workflows |-> value])

\* line 66: self._services[service_name] = []
RegisterEnter(t) ==
    /\ threads[t].line = 66
    /\ IF threads[t].self \in unset
       THEN /\ ThreadEnds(t, "AttributeError")
            /\ UNCHANGED registries
       ELSE /\ registries' =
                 [registries EXCEPT
                    ![threads[t].self]._services =
                        SetItem(@, threads[t].service_name.v, <<>>)]
            /\ GoTo(t, 69)
    /\ UNCHANGED <<_instance, unset, sequentialVars>>

\* What reading self._services[service_name] raises, or "none".
GetItemRaises(t) ==
    IF threads[t].self \in unset THEN "AttributeError"
    ELSE IF ~HasService(registries[threads[t].self]._services, threads[t].service_name.v)
    THEN "KeyError"
    ELSE "none"

\* lines 69-72: the duplicate check
RegisterCheckDuplicate(t) ==
    /\ threads[t].line = 69
    /\ IF GetItemRaises(t) # "none"
       THEN ThreadEnds(t, GetItemRaises(t))
       ELSE LET services == registries[threads[t].self]._services
                i == ServiceAt(services, threads[t].service_name.v)
            IN IF IsDuplicate(services[i].workflows, threads[t].workflow)
               THEN ThreadEnds(t, "Workflow already exists")
               ELSE GoTo(t, 74)
    /\ UNCHANGED <<_instance, registries, unset, sequentialVars>>

\* line 74: self._services[service_name].append(workflow)
RegisterAppend(t) ==
    /\ threads[t].line = 74
    /\ IF GetItemRaises(t) # "none"
       THEN /\ ThreadEnds(t, GetItemRaises(t))
            /\ UNCHANGED registries
       ELSE /\ registries' =
                 [registries EXCEPT
                    ![threads[t].self]._services[
                        ServiceAt(registries[threads[t].self]._services,
                                  threads[t].service_name.v)].workflows =
                            AddWorkflow(@, threads[t].workflow)]
            /\ ThreadEnds(t, "none")
    /\ UNCHANGED <<_instance, unset, sequentialVars>>

NextThreads ==
    \E t \in Threads :
        \/ ThreadStart(t)
        \/ NewIfNone(t)
        \/ NewCreate(t)
        \/ NewSetServices(t)
        \/ NewSetRouter(t)
        \/ NewReturn(t)
        \/ RegisterValidate(t)
        \/ RegisterIfMissing(t)
        \/ RegisterEnter(t)
        \/ RegisterCheckDuplicate(t)
        \/ RegisterAppend(t)

SpecThreads == Init /\ [][NextThreads]_vars

\* Every function and every retention handed to the decorator of a Service.
NextDecorator ==
    \/ NewService({StrV("s1"), StrV("")})
    \/ WorkflowDecorator(Funcs, Configs)

SpecDecorator == Init /\ [][NextDecorator]_vars

\* ------------------------------------------------------------------ properties

Terminal(p) == pc[p] \in {"returned", "raised"}
Statuses(p) == [i \in DOMAIN logs[p] |-> logs[p][i].status]
\* The logs of the call that reached the engine, in order.
Received(p) == SelectSeq(logs[p], LAMBDA l : l.delivered)
LastLog(p) == logs[p][Len(logs[p])]
\* The last log is a FAILED log for the latest invocation and the engine
\* answered it: engine_response[p] is that answer.
FailedAnswered(p) ==
    /\ logs[p] # <<>>
    /\ LastLog(p).status = "failed"
    /\ LastLog(p).answered
    /\ LastLog(p).attempt = invoked(p)
\* The exception being handled is one the action callable raised.
FromAction(p) == exc[p].origin = "action"
ValueErrorTypes == {"ValueError", "ValidationError"}

C2_CompletedOnlyAfterAck ==
    \A p \in Procs :
        (\E i \in DOMAIN logs[p] : logs[p][i].status = "completed")
            => status_code[p] \in {HTTP_200_OK, HTTP_201_CREATED}

C2_Witness ==
    \E p \in Procs :
        /\ Statuses(p) = <<"started", "completed">>
        /\ status_code[p] = HTTP_200_OK

\* C3 (as claimed): against a recording engine the action callable does not
\* run to successful completion more than once for one (execution_id,
\* action_name), across crashes, retries and repeated invocations.
C3_EffectivelyOnce == successes <= 1

\* C4 (as claimed): a call that follows a call of the same process which ran
\* the normal protocol, and whose STARTED log the recording engine answers,
\* observes 208, returns the output cached from the first call and does not
\* invoke the action callable.
C4_SecondCallCached ==
    \A p \in Procs :
        (previous[p] # Absent /\ Terminal(p) /\ LastLog(p).answered)
            => /\ status_code[p] = HTTP_208_ALREADY_REPORTED
               /\ outcome[p] = Returned(serialize_data(previous[p]))
               /\ attempts[p] = <<>>

\* C5 (as claimed): on a 208 answer to the STARTED log, whatever the payload,
\* execute_action returns payload.output, the empty map only when output is
\* absent, never invokes the action callable and sends exactly one log.
C5_CachedOutput ==
    \A p \in Procs :
        (Terminal(p) /\ status_code[p] = HTTP_208_ALREADY_REPORTED)
            => /\ outcome[p] =
                    Returned(IF engine_response[p].payload.output = Absent
                             THEN DictV(<<>>)
                             ELSE engine_response[p].payload.output)
               /\ attempts[p] = <<>>
               /\ Len(logs[p]) = 1

\* C6 (as claimed): when the action callable raised a ValueError or a
\* validation error, and the engine answered every log, the call's logs are
\* exactly one STARTED and one FAILED, the same exception is re-raised and the
\* action is not invoked again.
C6_Original ==
    \A p \in Procs :
        (/\ Terminal(p)
         /\ \E i \in DOMAIN attempts[p] : attempts[p][i] \in ValueErrorTypes
         /\ \A j \in DOMAIN logs[p] : logs[p][j].answered)
            => /\ Statuses(p) = <<"started", "failed">>
               /\ attempts[p][Len(attempts[p])] \in ValueErrorTypes
               /\ outcome[p] = Raised(Exc(attempts[p][Len(attempts[p])], "action", 0, ""))

\* C6 (amended): when the action callable raised a ValueError or a validation
\* error and the engine answered the FAILED log sent for it, whatever the
\* answer, execute_action has raised that same exception, that FAILED log is
\* the only log sent after the invocation and the last log of the call, and the
\* action is not invoked again; the logs are exactly STARTED, FAILED when the
\* invocation was the call's first.
C6_ValueErrorNotRetried ==
    \A p \in Procs :
        (FailedAnswered(p) /\ FromAction(p) /\ exc[p].type \in ValueErrorTypes)
            => /\ pc[p] = "raised"
               /\ outcome[p] = Raised(Exc(attempts[p][invoked(p)], "action", 0, ""))
               /\ attempts[p][invoked(p)] \in ValueErrorTypes
               /\ Cardinality({i \in DOMAIN logs[p] : logs[p][i].attempt = invoked(p)}) = 1
               /\ LastLog(p).output = DictV(<<StrV(attempts[p][invoked(p)])>>)
               /\ (invoked(p) = 1 => Statuses(p) = <<"started", "failed">>)

C6_Witness ==
    \E p \in Procs :
        /\ pc[p] = "raised"
        /\ attempts[p] = <<"ValidationError">>
        /\ Statuses(p) = <<"started", "failed">>
        /\ LastLog(p).answered
        /\ engine_response[p] = Response(HTTP_200_OK, Absent, MaxTime)
        /\ outcome[p] = Raised(Exc("ValidationError", "action", 0, ""))

C8_Original ==
    \A p \in Procs :
        (FailedAnswered(p) /\ engine_response[p].status_code # HTTP_200_OK)
            => pc[p] = "raised"

\* What ends the retry loop: a fatal status code, or no retry_at to obey.
EndsLoop(resp) ==
    \/ resp.status_code \in {HTTP_400_BAD_REQUEST, HTTP_404_NOT_FOUND, HTTP_409_CONFLICT}
    \/ resp.payload.retry_at \in {NoRetryAt, 0}

\* C8 (amended): an answer to a FAILED log whose status code is 400, 404 or
\* 409, or whose payload carries no retry_at (or a zero one), ends the loop:
\* execute_action has raised, and from then on the call invokes the action no
\* more and sends no further log.  An answer with any other status code, 200
\* or not, that carries a retry_at keeps the loop going when the FAILED log
\* reported a generic exception.
C8_LoopEnds ==
    /\ [](\A p \in Procs :
            FailedAnswered(p) =>
                /\ EndsLoop(engine_response[p]) => pc[p] = "raised"
                /\ (~EndsLoop(engine_response[p]) /\ exc[p].type = "Exception")
                      => pc[p] \in {"sleep", "invoke"})
    /\ [][\A p \in Procs :
            pc[p] = "raised" =>
                \/ pc'[p] = "raised" /\ logs'[p] = logs[p] /\ attempts'[p] = attempts[p]
                \/ pc'[p] = "idle"]_vars

C8_Witness ==
    \E p \in Procs :
        /\ FailedAnswered(p)
        /\ engine_response[p] = Response(HTTP_404_NOT_FOUND, Absent, MaxTime)
        /\ attempts[p] = <<"Exception">>
        /\ pc[p] = "raised"

StaysEnded(p) ==
    \/ pc'[p] = pc[p] /\ logs'[p] = logs[p] /\ attempts'[p] = attempts[p]
    \/ pc'[p] = "idle"

\* The last log is the FAILED log of `except Exception` and the engine
\* answered it 200 with a payload that holds no retry_at.
NoRetryAtAnswered(p) ==
    /\ FailedAnswered(p)
    /\ engine_response[p].status_code = HTTP_200_OK
    /\ engine_response[p].payload.retry_at = NoRetryAt

\* C11 (as claimed): whenever the engine answers a FAILED log 200 without a
\* retry_at, execute_action raises RuntimeError.
C11_Original ==
    \A p \in Procs :
        NoRetryAtAnswered(p) =>
            pc[p] = "raised" /\ outcome[p].exc.type = "RuntimeError"

\* C11 (amended): when the FAILED log reports a generic exception (one taken
\* by `except Exception`) and the engine answers it 200 with no retry_at in
\* the payload, execute_action raises RuntimeError at once: it does not
\* sleep, the action is not invoked again and no other log is sent.  When the
\* FAILED log reports a ValueError or a validation error the answer is not
\* read and that error is re-raised.
C11_MissingRetryAt ==
    /\ [](\A p \in Procs :
            NoRetryAtAnswered(p) =>
                /\ pc[p] = "raised"
                /\ exc[p].type = "Exception" => outcome[p] = Raised(NoRetryAtError)
                /\ exc[p].type \in ValueErrorTypes => outcome[p] = Raised(exc[p]))
    /\ [][\A p \in Procs : NoRetryAtAnswered(p) => StaysEnded(p)]_vars

C11_Witness ==
    \E p \in Procs :
        /\ NoRetryAtAnswered(p)
        /\ attempts[p] = <<"Exception">>
        /\ Statuses(p) = <<"started", "failed">>
        /\ outcome[p] = Raised(NoRetryAtError)

\* send_log has just returned the engine's answer to the FAILED log of
\* `except Exception`, and the answer schedules a retry: its status code is
\* none of 400, 404, 409 and its payload holds a retry_at.
RetryScheduled(p) ==
    /\ pc[p] = "except_exception"
    /\ Len(logs'[p]) = Len(logs[p]) + 1
    /\ logs'[p][Len(logs'[p])].answered
    /\ engine_response'[p].status_code \notin
           {HTTP_400_BAD_REQUEST, HTTP_404_NOT_FOUND, HTTP_409_CONFLICT}
    /\ engine_response'[p].payload.retry_at # NoRetryAt

\* C12: whenever the engine's answer to a FAILED log schedules a retry with a
\* retry_at that is not later than the current time, execute_action does not
\* sleep: it is back at the invocation of the action at once.
C12_PastRetryAt ==
    [][\A p \in Procs :
          (RetryScheduled(p) /\ engine_response'[p].payload.retry_at <= now)
              => pc'[p] = "invoke"]_vars

\* C13: within one execute_action call the action callable is invoked at
\* most max_retries + 1 times, whatever the engine answers.
C13_MaxRetriesBound ==
    \A p \in Procs : invoked(p) <= max_retries + 1

\* The JSON form of a value: every pydantic model and dataclass in it is a
\* map of its fields.
RECURSIVE JsonForm(_)
JsonForm(v) ==
    IF v.t \in {"BaseModel", "dataclass", "dict"}
    THEN DictV([i \in DOMAIN v.items |-> JsonForm(v.items[i])])
    ELSE IF v.t \in {"list", "tuple"}
         THEN Val(v.t, "", [i \in DOMAIN v.items |-> JsonForm(v.items[i])])
         ELSE v

\* The call has returned after one invocation of the action, which
\* succeeded, and send_log returned an answer to every log.
FirstAttemptSucceeded(p) ==
    /\ pc[p] = "returned"
    /\ attempts[p] = <<"returned">>
    /\ \A j \in DOMAIN logs[p] : logs[p][j].answered

\* C14: when the STARTED log is acknowledged with 200 or 201 and the action
\* succeeds on its first attempt, the call sends exactly two logs, STARTED
\* then COMPLETED, both under the context's execution_id and under
\* action_name if one was given, else the callable's name; the STARTED log
\* carries the serialized input, max_retries and retry_mechanism, the
\* COMPLETED log the serialized result, and the call returns what the action
\* returned.
C14_FirstAttemptSuccess ==
    \A p \in Procs :
        FirstAttemptSucceeded(p) =>
            /\ status_code[p] \in {HTTP_200_OK, HTTP_201_CREATED}
            /\ Statuses(p) = <<"started", "completed">>
            /\ \A j \in DOMAIN logs[p] :
                  /\ logs[p][j].execution_id = execution_id
                  /\ logs[p][j].action_name =
                        (IF action_name = NoName THEN ActionCallableName ELSE action_name)
            /\ logs[p][1].input = JsonForm(input_data[p])
            /\ logs[p][1].max_retries = max_retries
            /\ logs[p][1].retry_mechanism = retry_mechanism
            /\ logs[p][2].output = JsonForm(result[p])
            /\ result[p] \in ActionResults
            /\ outcome[p] = Returned(result[p])

C14_Witness ==
    \E p \in Procs :
        /\ FirstAttemptSucceeded(p)
        /\ status_code[p] = HTTP_201_CREATED
        /\ action_name = "custom" /\ logs[p][2].action_name = "custom"
        /\ max_retries = 0 /\ retry_mechanism = "linear" /\ execution_id = "e2"
        /\ logs[p][1].input = DictV(<<DictV(<<IntV("7")>>)>>)
        /\ logs[p][2].output = DictV(<<IntV("7")>>)
        /\ outcome[p] = Returned(ModelV(<<IntV("7")>>))

\* The call has ended after k invocations that raised a generic exception
\* and one more that succeeded, and send_log returned an answer to every log.
SucceededAfterRetries(p, k) ==
    /\ Terminal(p)
    /\ attempts[p] = [i \in 1..(k + 1) |-> IF i <= k THEN "Exception" ELSE "returned"]
    /\ \A j \in DOMAIN logs[p] : logs[p][j].answered

\* C15: if the action raises a generic exception on each of its first k
\* attempts, the engine's answer to each FAILED log schedules a retry, and
\* attempt k+1 succeeds, then the call has invoked the action exactly k+1
\* times, has sent exactly k+2 logs (STARTED, k times FAILED, COMPLETED) and
\* returns the result of attempt k+1.
C15_RetryThenSuccess ==
    \A p \in Procs : \A k \in 0..MaxInvocations :
        SucceededAfterRetries(p, k) =>
            /\ pc[p] = "returned"
            /\ invoked(p) = k + 1
            /\ Statuses(p) = [j \in 1..(k + 2) |->
                                 IF j = 1 THEN "started"
                                 ELSE IF j = k + 2 THEN "completed" ELSE "failed"]
            /\ result[p] \in ActionResults
            /\ outcome[p].kind = "returned" /\ outcome[p].value = result[p]

C15_Witness ==
    \E p \in Procs :
        /\ SucceededAfterRetries(p, 1)
        /\ Statuses(p) = <<"started", "failed", "completed">>
        /\ wake[p] = MaxTime
        /\ outcome[p].value = IntV("0")

\* C16: the action callable is invoked only after the STARTED log was
\* answered 200 or 201.  If send_log raises for the STARTED log, or the answer
\* carries any status code other than 200, 201 and 208, execute_action has
\* raised (what send_log raised, or RuntimeError for the status code), has
\* sent exactly one log and has not invoked the action.
C16_InvokedOnlyAfterAck ==
    \A p \in Procs :
        /\ invoked(p) > 0 =>
              /\ logs[p][1].status = "started" /\ logs[p][1].answered
              /\ status_code[p] \in {HTTP_200_OK, HTTP_201_CREATED}
        /\ (logs[p] # <<>> /\ ~logs[p][1].answered) =>
              /\ pc[p] = "raised" /\ outcome[p].kind = "raised"
              /\ outcome[p].exc.origin = "send_log"
              /\ Len(logs[p]) = 1 /\ attempts[p] = <<>>
        /\ (/\ logs[p] # <<>> /\ logs[p][1].answered
            /\ status_code[p] \notin
                  {HTTP_200_OK, HTTP_201_CREATED, HTTP_208_ALREADY_REPORTED}) =>
              /\ pc[p] = "raised" /\ outcome[p].kind = "raised"
              /\ outcome[p].exc.type = "RuntimeError"
              /\ Len(logs[p]) = 1 /\ attempts[p] = <<>>

C16_Witness ==
    \E p \in Procs :
        /\ pc[p] = "raised"
        /\ Statuses(p) = <<"started">> /\ logs[p][1].answered
        /\ status_code[p] = HTTP_500_INTERNAL_SERVER_ERROR
        /\ outcome[p].exc.type = "RuntimeError"
        /\ attempts[p] = <<>>

\* The latest invocation of the action raised a transport error.
TransportErrorRaised(p) ==
    invoked(p) > 0 /\ attempts[p][invoked(p)] = "RequestException"

\* C17 (as claimed): when the action callable raised a RequestException, the
\* call re-raises it and the only log of the call is STARTED.
C17_Original ==
    \A p \in Procs :
        TransportErrorRaised(p) =>
            /\ pc[p] = "raised"
            /\ outcome[p].exc = Exc("RequestException", "action", 0, "")
            /\ Statuses(p) = <<"started">>

\* C17 (amended): when the action callable raises a RequestException,
\* execute_action re-raises it at once: the action is not invoked again and
\* no log is sent after that invocation.  The only log of the call is STARTED
\* when the invocation was the call's first; a failure that was retried
\* before it has left its FAILED log.
C17_TransportErrorNotRetried ==
    /\ [](\A p \in Procs :
            TransportErrorRaised(p) =>
                /\ pc[p] = "raised"
                /\ outcome[p].kind = "raised"
                /\ outcome[p].exc = Exc("RequestException", "action", 0, "")
                /\ \A j \in DOMAIN logs[p] : logs[p][j].attempt < invoked(p)
                /\ invoked(p) = 1 => Statuses(p) = <<"started">>)
    /\ [][\A p \in Procs : TransportErrorRaised(p) => StaysEnded(p)]_vars

C17_Witness ==
    \E p \in Procs :
        /\ attempts[p] = <<"RequestException">>
        /\ pc[p] = "raised"
        /\ Statuses(p) = <<"started">>
        /\ outcome[p].exc = Exc("RequestException", "action", 0, "")

\* The request's body is JSON but no object, or an object without
\* execution_id or without input.
BadBody ==
    \/ body.kind = "list"
    \/ body.kind = "dict" /\ (~body.has_id \/ ~body.has_input)

\* C18: for every request whose JSON body is not a map or lacks execution_id
\* or input, the handler raises EndureException with status 400, without
\* calling mark_execution_as_running and without invoking the user function.
C18_BadBodyRejected ==
    BadBody =>
        /\ request_pc = "done"
        /\ response.kind = "raised"
        /\ response.exc.type = "EndureException"
        /\ response.exc.status_code = HTTP_400_BAD_REQUEST
        /\ marked = <<>>
        /\ func_calls = <<>>

C18_Witness ==
    /\ body.kind = "dict" /\ body.has_id /\ ~body.has_input
    /\ response.kind = "raised"
    /\ response.exc = EndureError(HTTP_400_BAD_REQUEST,
                                  "Request must include 'execution_id' and 'input' fields",
                                  NoDetails)
    /\ marked = <<>> /\ func_calls = <<>>

\* C19: for every request the user function is invoked at most once, under
\* the request's execution_id, and only after mark_execution_as_running was
\* called exactly once with that execution_id and returned; when that call
\* raised (a transport error or any other error) the user function is not
\* invoked and the handler raises.
C19_RunOnlyAfterMark ==
    /\ Len(func_calls) <= 1
    /\ Len(marked) <= 1
    /\ func_calls # <<>> =>
          /\ marked = <<body.execution_id>>
          /\ mark_response \in StatusCodes
          /\ func_calls[1][1] = body.execution_id
    /\ (marked # <<>> /\ mark_response \notin StatusCodes) =>
          /\ func_calls = <<>>
          /\ request_pc = "done"
          /\ response.kind = "raised"

C19_Witness ==
    /\ func_calls = << <<"e2", ModelV(<<IntV("7")>>)>> >>
    /\ marked = <<"e2">>
    /\ mark_response = HTTP_200_OK
    /\ response.kind = "returned"

\* C20: every exception that occurs while the handler serves a request leaves
\* the handler as an EndureException that carries a status code; nothing else
\* escapes.  (An exception that is no Exception, such as a cancellation, is
\* left aside.)
C20_OnlyEndureException ==
    (response.kind = "raised" /\ response.exc.type # "CancelledError") =>
        /\ response.exc.type = "EndureException"
        /\ response.exc.status_code \in StatusCodes \cup {HTTP_422_UNPROCESSABLE_ENTITY}

\* C21: when the input hint of the user function is a record type and the raw
\* input map cannot be converted into it, the handler raises EndureException
\* with status 422 and the user function is not invoked.
C21_ConversionFailure422 ==
    (/\ request_pc = "done"
     /\ mark_response \in StatusCodes
     /\ input_type = "BaseModel"
     /\ ~ConvertInput(body.input).ok) =>
        /\ response.kind = "raised"
        /\ response.exc.type = "EndureException"
        /\ response.exc.status_code = HTTP_422_UNPROCESSABLE_ENTITY
        /\ func_calls = <<>>

\* What the handler is to raise for an exception e of the user function, by
\* first match: an EndureException as it is, an HTTPException as its code
\* and detail, a validation error as 422, another ValueError as 400, anything
\* else as 500.
MappedError(e) ==
    CASE e.type = "EndureException" -> [status_code |-> e.status_code, error |-> e.error]
      [] e.type = "HTTPException" -> [status_code |-> e.status_code, error |-> e.error]
      [] e.type = "ValidationError" ->
            [status_code |-> HTTP_422_UNPROCESSABLE_ENTITY, error |-> "Validation error"]
      [] e.type = "ValueError" ->
            [status_code |-> HTTP_400_BAD_REQUEST, error |-> "Value error"]
      [] OTHER ->
            [status_code |-> HTTP_500_INTERNAL_SERVER_ERROR, error |-> "Internal server error"]

\* C22: the handler maps an exception raised by the user function by first
\* match: EndureException unchanged, HTTPException(code, detail) to code with
\* {error: detail}, a validation error to 422 "Validation error", any other
\* ValueError to 400 "Value error", anything else to 500 "Internal server
\* error".  (An exception that is no Exception, such as a cancellation, is
\* left aside.)
C22_ErrorMapping ==
    (/\ request_pc = "done"
     /\ func_raised.type \notin {"none", "CancelledError"}) =>
        /\ response.kind = "raised"
        /\ response.exc.type = "EndureException"
        /\ response.exc.status_code = MappedError(func_raised).status_code
        /\ response.exc.error = MappedError(func_raised).error

\* No service name twice in the _services of a registry, no workflow name
\* twice in the list of a service.
UniqueNames(services) ==
    /\ \A i, j \in DOMAIN services : services[i].name = services[j].name => i = j
    /\ \A i \in DOMAIN services :
          \A j, k \in DOMAIN services[i].workflows :
              services[i].workflows[j].name = services[i].workflows[k].name => j = k

\* The service of that name holds a workflow of that name.
Registered(services, service_name, workflow_name) ==
    \E i \in DOMAIN services :
        /\ services[i].name = service_name
        /\ \E j \in DOMAIN services[i].workflows :
              services[i].workflows[j].name = workflow_name

InvalidServiceName(service_name) == service_name.t # "str" \/ service_name.v = ""

\* C23: after any sequence of register_workflow calls on one ServiceRegistry
\* no two registered workflows share (service_name, workflow_name); a call
\* with an empty or non-string service name, or with a workflow name already
\* present in that service, raises and leaves the services and their
\* workflow lists unchanged.
C23_UniqueRegistrations ==
    /\ [](\A r \in DOMAIN registries : UniqueNames(registries[r]._services))
    /\ []((last.op = "register_workflow" /\ InvalidServiceName(last.service_name))
              => last.raised # "none")
    /\ [][last'.op = "register_workflow" =>
            /\ (/\ ~InvalidServiceName(last'.service_name)
                /\ Registered(registries[last'.registry]._services,
                              last'.service_name.v, last'.workflow.name))
                  => last'.raised # "none"
            /\ last'.raised # "none" => registries' = registries]_vars

C23_Witness ==
    /\ last.op = "register_workflow"
    /\ last.service_name = StrV("s2")
    /\ last.workflow.name = "w1"
    /\ last.raised = "Workflow already exists"
    /\ Registered(registries[last.registry]._services, "s2", "w1")
    /\ Registered(registries[last.registry]._services, "s1", "w1")

\* C25: ServiceRegistry is a process-wide singleton: after any sequence of
\* ServiceRegistry(), Service(name), DurableApp(app) and clear() calls, every
\* registry reference held by a Service or a DurableApp denotes the instance
\* that a fresh ServiceRegistry() call returns.
C25_Singleton ==
    \A h \in held : h.kind \in {"Service", "DurableApp"} => h.registry = New.instance

\* The writes of a caller to the dict get_services returned.
CopyWrites ==
    {"del services[name]", "services[name] = []", "services[name].append(workflow)",
     "services[name].clear()"}

\* C26: get_services returns a defensive copy: no modification a caller makes
\* to the returned map or to the workflow lists inside it changes what the
\* registry later reports or accepts.
C26_DefensiveCopy ==
    [][last'.op \in CopyWrites => registries' = registries]_vars

\* What GET /discover lists in a state: nothing before the registry exists.
Listing(objects) == IF objects = <<>> THEN <<>> ELSE Discover(objects[1]._services)

\* The entry of a workflow in the discovery output.
Listed(workflow) ==
    [name |-> workflow.name, input |-> workflow.input, output |-> workflow.output,
     idem_retention |-> workflow.retention_period]

\* A listing with one more workflow, registered last: at the end of its
\* service, the service at the end of the listing when it is new.
ListedAfter(listing, service_name, workflow) ==
    IF \E i \in DOMAIN listing : listing[i].name = service_name
    THEN [i \in DOMAIN listing |->
            IF listing[i].name = service_name
            THEN [listing[i] EXCEPT !.workflows = Append(@, Listed(workflow))]
            ELSE listing[i]]
    ELSE Append(listing, [name |-> service_name, workflows |-> <<Listed(workflow)>>])

\* C27: after any sequence of successful registrations the discovery output
\* lists every registered service once and, under it, every workflow
\* registered in that service exactly once with its name, input descriptor,
\* output descriptor and retention, in registration order: it starts empty,
\* every successful registration puts its workflow at the end of its service
\* (a new service at the end of the output), and nothing else changes it.
C27_DiscoveryInOrder ==
    /\ [](last.op = "_discover" =>
            /\ last.returned = Listing(registries)
            /\ UniqueNames(last.returned))
    /\ [][IF last'.op = "register_workflow" /\ last'.raised = "none"
          THEN Listing(registries') =
                  ListedAfter(Listing(registries), last'.service_name.v, last'.workflow)
          ELSE Listing(registries') = Listing(registries)]_vars

C27_Witness ==
    /\ last.op = "_discover"
    /\ Len(last.returned) = 2
    /\ last.returned[1].name = "s2"
    /\ last.returned[1].workflows =
          <<[name |-> "w2", input |-> "Any", output |-> "Any",
             idem_retention |-> Retention("int", 7)],
            [name |-> "w1", input |-> "dict", output |-> "str",
             idem_retention |-> Retention("int", 30)]>>
    /\ last.returned[2].name = "s1"
    /\ Len(last.returned[2].workflows) = 1

\* The errors validate_retention_period raises.
RetentionErrors ==
    {"Retention period must be an integer.",
     "Retention period must be a non-negative integer.",
     "Retention period cannot exceed 30 days."}

\* The workflow of that name in the service of that name.
RegisteredWorkflow(services, service_name, workflow_name) ==
    LET workflows == services[ServiceAt(services, service_name)].workflows
    IN workflows[CHOOSE j \in DOMAIN workflows : workflows[j].name = workflow_name]

\* C28: a registration through Service.workflow is refused for its retention
\* exactly when the retention given is not an integer with 0 <= retention <=
\* 30; when no retention is given the registered workflow has retention 7.
C28_RetentionAccepted ==
    last.op = "workflow" =>
        /\ last.raised \in RetentionErrors <=>
              /\ last.config.given
              /\ ~(/\ last.config.retention.t \in {"int", "bool"}
                   /\ 0 <= last.config.retention.n
                   /\ last.config.retention.n <= 30)
        /\ (last.raised = "none" /\ ~last.config.given) =>
              RegisteredWorkflow(registries[last.registry]._services,
                                 last.service_name.v, last.func.name).retention_period
                  = Retention("int", 7)

C28_Witness ==
    /\ last.op = "workflow"
    /\ last.raised = "none"
    /\ ~last.config.given
    /\ last.func.name = "w2"
    /\ Len(registries[last.registry]._services[1].workflows) = 2
    /\ registries[last.registry]._services[1].workflows[1].retention_period
          = Retention("int", 30)
    /\ registries[last.registry]._services[1].workflows[2].retention_period
          = Retention("int", 7)

\* The function has exactly the two parameters ctx and input.
ExactlyCtxAndInput(func) ==
    /\ Len(func.co_varnames) = 2
    /\ {func.co_varnames[i] : i \in DOMAIN func.co_varnames} = {"ctx", "input"}

\* Its positional parameters are exactly ctx and input.
PositionalCtxAndInput(func) ==
    /\ func.co_argcount = 2
    /\ {func.co_varnames[i] : i \in 1..func.co_argcount} = {"ctx", "input"}

\* The workflows a registry holds, as places in its _services.
Places(services) ==
    UNION {{<<i, j>> : j \in DOMAIN services[i].workflows} : i \in DOMAIN services}

\* A call of the decorator raised and changed nothing, or returned the
\* function and added one workflow and one POST route; a call that `refused`
\* holds for raised.
DecoratorStep(refused(_)) ==
    last'.op = "workflow" =>
        LET r == last'.registry
            func == last'.func
            service_name == last'.service_name
        IN /\ (\/ validate_retention_period(RetentionOf(last'.config)) # "none"
               \/ refused(func)
               \/ func.ctx # "WorkflowContext"
               \/ Registered(registries[r]._services, service_name.v, func.name))
                 => last'.raised # "none"
           /\ last'.raised # "none" => registries' = registries
           /\ last'.raised = "none" =>
                 /\ last'.returned = <<func>>
                 /\ \A q \in DOMAIN registries : q # r => registries'[q] = registries[q]
                 /\ Cardinality(Places(registries'[r]._services))
                       = Cardinality(Places(registries[r]._services)) + 1
                 /\ Registered(registries'[r]._services, service_name.v, func.name)
                 /\ registries'[r].routes =
                       Append(registries[r].routes,
                              Route(<<"execute", service_name.v, func.name>>, "POST"))

NotExactlyCtxAndInput(func) == ~ExactlyCtxAndInput(func)
NotPositionalCtxAndInput(func) == ~PositionalCtxAndInput(func)

\* C29: registering through Service.workflow is all-or-nothing: if the
\* retention is invalid, the function does not have exactly the two
\* parameters ctx and input, ctx is not annotated WorkflowContext, or the
\* workflow name is a duplicate in the service, registration raises and the
\* registry's services and routing table are left unchanged; on success
\* exactly one workflow and exactly one POST route
\* /execute/{service_name}/{workflow_name} are added and the original function
\* is returned.
C29_AllOrNothing == [][DecoratorStep(NotExactlyCtxAndInput)]_vars

\* The same with the signature read as the decorator reads it: only the
\* positional parameters count.
DecoratorPositional == [][DecoratorStep(NotPositionalCtxAndInput)]_vars

\* C24: the registry tables are guarded against concurrent mutation: when
\* several threads call ServiceRegistry() and register_workflow concurrently
\* in any interleaving, workflow names within a service stay unique, no
\* successful registration is lost, and all threads obtain the same instance.
C24_ThreadSafe ==
    /\ \A r \in DOMAIN registries : UniqueNames(registries[r]._services)
    /\ \A t \in Threads :
          (threads[t].line = LineDone /\ threads[t].raised = "none") =>
              Registered(registries[threads[t].self]._services,
                         threads[t].service_name.v, threads[t].workflow.name)
    /\ \A t, u \in Threads :
          (threads[t].self # 0 /\ threads[u].self # 0) => threads[t].self = threads[u].self

\* The call reached requests.patch: the base URL is set and, for send_log,
\* log and action_name are given.
RequestMade ==
    /\ exchange.base_url
    /\ client_result.op = "send_log" => (exchange.log /\ exchange.action_name)

Refused ==
    \/ ~exchange.base_url
    \/ client_result.op = "send_log" /\ (~exchange.log \/ ~exchange.action_name)

\* C31: a call of send_log or mark_execution_as_running issues at most one
\* HTTP request, also when the engine cannot be reached; a call without a
\* configured base URL, or a send_log without log or action_name, raises and
\* issues no request.
C31_AtMostOneRequest ==
    client_result.kind # "none" =>
        /\ client_result.requests <= 1
        /\ Refused => (client_result.kind = "raised" /\ client_result.requests = 0)

C31_Witness ==
    /\ client_result.op = "send_log"
    /\ exchange.base_url /\ exchange.log /\ exchange.action_name
    /\ exchange.http.kind = "failure"
    /\ client_result.kind = "raised"
    /\ client_result.requests = 1

\* What the call of context p holds: its locals, the logs it sent and its outcome.
Local(p) ==
    <<pc[p], input_data[p], status_code[p], engine_response[p], result[p], exc[p],
      logs[p], attempts[p], wake[p], outcome[p]>>
\* The logs of context p without the execution id they were sent under.
LogsSent(p) ==
    [i \in DOMAIN logs[p] |->
        [f \in DOMAIN logs[p][i] \ {"execution_id"} |-> logs[p][i][f]]]
\* What the call of context p got from outside: its input, how its own
\* action ended each time, and the engine's answers to its own logs.
OwnHistory(p) ==
    <<input_data[p], attempts[p], result[p], status_code[p],
      engine_response[p].status_code, Len(logs[p])>>

\* C32: two contexts made for different execution ids share no state: in
\* every interleaving of their execute_action calls each log carries the
\* execution id of the context that sent it, a step of one call leaves the
\* other call's locals, logs and outcome alone, and two calls with the same
\* input, the same endings of their own action and the same answers to their
\* own logs have sent the same logs and have the same outcome.
C32_ContextsIsolated ==
    /\ [](/\ \A i \in DOMAIN logs["p1"] : logs["p1"][i].execution_id = execution_id
          /\ \A i \in DOMAIN logs["p2"] : logs["p2"][i].execution_id = OtherExecutionId
          /\ \A p, q \in Contexts :
                OwnHistory(p) = OwnHistory(q) =>
                    (LogsSent(p) = LogsSent(q) /\ outcome[p] = outcome[q]))
    /\ [][\A p, q \in Contexts :
            (p # q /\ Local(p)' # Local(p)) => Local(q)' = Local(q)]_vars

\* Both calls are under way at once, and each has sent logs under its own id.
C32_Witness ==
    /\ pc["p1"] = "sleep" /\ pc["p2"] = "returned"
    /\ Len(logs["p1"]) = 2 /\ Len(logs["p2"]) = 3
    /\ logs["p1"][2].execution_id = execution_id
    /\ logs["p2"][3].execution_id = OtherExecutionId
    /\ execution_id # OtherExecutionId

\* C33: the sleep between retries yields to the event loop: while the call
\* of one context waits for its retry_at, the loop can run the call of the
\* other context, which is waiting to start.
C33_SleepYields ==
    \A p, q \in Contexts :
        (p # q /\ pc[p] = "sleep" /\ pc[q] = "idle") => ENABLED LoopStep(q)

\* C34: once the host has cancelled the request of a call that is in a retry
\* sleep or in an engine call, the call sends no further log (none beyond the
\* one in flight) and does not invoke the action again.
C34_CancelStops ==
    [][\A c \in cancelled :
          /\ Len(logs'[c.p]) <= c.logs
          /\ attempts'[c.p] = attempts[c.p]]_vars

\* send_log has just returned the engine's answer to a FAILED log, sent from
\* either except clause, and the answer schedules a retry for later than now.
LaterRetryAcknowledged(p) ==
    /\ pc[p] \in {"except_exception", "except_validation"}
    /\ Len(logs'[p]) = Len(logs[p]) + 1
    /\ logs'[p][Len(logs'[p])].answered
    /\ engine_response'[p].status_code \notin
           {HTTP_400_BAD_REQUEST, HTTP_404_NOT_FOUND, HTTP_409_CONFLICT}
    /\ engine_response'[p].payload.retry_at # NoRetryAt
    /\ engine_response'[p].payload.retry_at > now

\* C35 (as claimed): every FAILED acknowledgement that schedules a retry for
\* later than now puts execute_action to sleep until retry_at.
C35_Original ==
    [][\A p \in Procs :
          LaterRetryAcknowledged(p) =>
              (pc'[p] = "sleep" /\ wake'[p] = engine_response'[p].payload.retry_at)]_vars

\* C35 (amended): for every answer to the FAILED log of a generic exception
\* that schedules a retry with a retry_at later than the current time,
\* execute_action goes to sleep once, for retry_at minus the current time, a
\* positive duration; the sleep ends no earlier than retry_at and is followed
\* by the next invocation of the action with no log in between; and the call
\* goes to sleep on no other occasion, so never before the first invocation
\* and never after a terminal answer.
C35_SleepsAsScheduled ==
    [][\A p \in Procs :
          /\ (RetryScheduled(p) /\ engine_response'[p].payload.retry_at > now) =>
                /\ pc'[p] = "sleep"
                /\ wake'[p] = engine_response'[p].payload.retry_at
                /\ wake'[p] - now > 0
          /\ (pc[p] # "sleep" /\ pc'[p] = "sleep") =>
                /\ RetryScheduled(p)
                /\ engine_response'[p].payload.retry_at > now
                /\ invoked(p) >= 1
          /\ (pc[p] = "sleep" /\ pc'[p] \notin {"sleep", "idle"}) =>
                /\ pc'[p] = "invoke"
                /\ now >= wake[p]
                /\ logs'[p] = logs[p]]_vars

\* The call sleeps after the FAILED log of its first invocation, until a
\* retry_at that lies ahead.
C35_Witness ==
    \E p \in Procs :
        /\ pc[p] = "sleep"
        /\ attempts[p] = <<"Exception">>
        /\ wake[p] = engine_response[p].payload.retry_at
        /\ wake[p] > now
        /\ Statuses(p) = <<"started", "failed">>

Unconvertible == body.kind = "dict" /\ body.has_input /\ ~ConvertInput(body.input).ok

\* C37: the handler converts the input before it signals that the execution
\* started: a request whose input cannot be converted to the declared type
\* never causes a call of mark_execution_as_running.
C37_ConvertBeforeMark == Unconvertible => marked = <<>>

\* mark_execution_as_running was called for the request and returned an
\* envelope, and the handler is through with the request.
MarkReturned == request_pc = "done" /\ marked # <<>> /\ mark_response # 0

\* C40: the handler invokes the user function whenever
\* mark_execution_as_running returned an envelope, whatever its status code;
\* only an exception raised by that call prevents the invocation.
C40_RunsWhateverStatus ==
    /\ MarkReturned => Len(func_calls) = 1
    /\ (request_pc = "done" /\ marked # <<>> /\ mark_response = 0) => func_calls = <<>>

\* The action callable has returned without raising in this call.
HasReturned(p) == \E i \in DOMAIN attempts[p] : attempts[p][i] = "returned"

\* C38: within one execute_action call, once the action callable has
\* returned without raising, the callable is not invoked again and no FAILED
\* log is sent, whatever happens while the COMPLETED log is sent (send_log
\* raising included).
C38_NoRerunAfterReturn ==
    [][\A p \in Procs :
          HasReturned(p) =>
              \/ pc'[p] = "idle"
              \/ /\ attempts'[p] = attempts[p]
                 /\ Len(logs'[p]) > Len(logs[p]) =>
                        logs'[p][Len(logs'[p])].status # "failed"]_vars

\* send_log has just returned the engine's answer to the COMPLETED log.
CompletedAnswered(p) ==
    /\ pc[p] = "log_completed"
    /\ Len(logs'[p]) = Len(logs[p]) + 1
    /\ logs'[p][Len(logs'[p])].status = "completed"
    /\ logs'[p][Len(logs'[p])].answered

\* C39: whatever status code the engine answers to the COMPLETED log,
\* execute_action returns the action's result; the answer causes no retry,
\* no error and no further log.
C39_CompletedAnswerIgnored ==
    [][\A p \in Procs :
          /\ CompletedAnswered(p) =>
                /\ pc'[p] = "returned"
                /\ outcome'[p].kind = "returned"
                /\ outcome'[p].value = result[p]
                /\ attempts'[p] = attempts[p]
          /\ (pc[p] = "returned" /\ attempts[p] # <<>>) =>
                /\ logs'[p] = logs[p]
                /\ attempts'[p] = attempts[p]
                /\ outcome'[p] = outcome[p]]_vars

\* The engine answered the COMPLETED log 409 and the call returned the result.
C39_Witness ==
    \E p \in Procs :
        /\ pc[p] = "returned"
        /\ attempts[p] = <<"returned">>
        /\ LastLog(p).status = "completed" /\ LastLog(p).answered
        /\ engine_response[p].status_code = HTTP_409_CONFLICT
        /\ outcome[p].kind = "returned"
        /\ outcome[p].value = result[p]
        /\ result[p] # None
====
